---- MODULE Spec2Model ----
(***************************************************************************)
(* Monitoring / incident / notification engine of fn-bot                   *)
(* (src/connection/setup-email.js, class ServerMonitor and the routes      *)
(* that drive it).  Time is counted in minutes.  Every async function is   *)
(* cut at the awaits where another callback can interleave.                *)
(***************************************************************************)
EXTENDS Integers, Sequences, FiniteSets, TLC

\* ------------------------------------------------------------------ bounds
MaxTime == 40
TimeStep == 20
MaxIncidents == 2
NumTasks == 2
MaxOverlap == 2
MaxTimers == 3
MaxChecks == 3
MaxLogs == 2
MaxClients == 3
MaxLines == 2
MaxRuns == 2
MinTokenLen == 30

\* ------------------------------------------------------- program constants
\* 30 * 60 * 1000 ms in the dedup query of handleIssue, in minutes
DedupWindow == 30
\* status.responseTime > 1000
LatencyLimit == 1000
\* status.version.protocol < 671
MinProtocol == 671

\* serverSchema: checkInterval default, seconds
CheckInterval == 10

NoDate == -1

Servers == {"s1", "s2"}
Tasks == 1..NumTasks
Chats == <<"c1", "c2">>
ChatIds == {Chats[n] : n \in 1..Len(Chats)}
Clients == 1..MaxClients
Severities == {"critical", "warning", "info"}

\* ------------------------------------------------------------------- state
VARIABLES
    now,              \* Date.now(), minutes
    lastStatus,       \* ServerModel rows: persisted lastStatus per server
    incidents,        \* Incident collection, _id = index
    updatedAt,        \* existingIncident.updatedAt: set on the in-memory
                      \* document only, incidentSchema has no such path
    tasks,            \* in-flight checkServer / handleIssue invocations
    incidentCheckers, \* monitor.incidentCheckers: incident _id -> live timer
    wpending,         \* recovery-watcher callbacks awaiting findById
    recoveryCalls,    \* sendRecoveryNotification invocations per incident
    firstResolver,    \* who first persisted status = 'resolved' per incident
    notifications,    \* Notification collection
    sends,            \* calls made to sendEmail / sendWhatsAppMessage /
                      \* sendTelegramMessage
    cfg,              \* Setting rows and channel readiness flags
    chanDown,         \* recipients whose provider currently rejects a send
    monitoring,       \* monitor.monitoring: server _id -> timer handle
    liveTimers,       \* setInterval handles not yet cleared
    nextTimer,        \* next setInterval handle
    stats,            \* server.stats of the document the server's poll
                      \* timer holds (the argument of startMonitoring)
    storedStats,      \* stats of the ServerModel row in the store
    checksRun,        \* checkServer calls made per server
    published,        \* status of the latest 'server-update' event
    raised,           \* issues array of the latest checkForIssues call
    unhandled,        \* checks that rejected with nobody catching: the
                      \* server, and whether a timer or a route started it
    serverRows,       \* ServerModel collection: absent / active / inactive
    phase,            \* initializeSystem .. running .. SIGTERM handler
    toLoad,           \* loadServers: servers of the find() still to start
    diagnostics,      \* what getServerDiagnostics last returned, and the
                      \* status it was called with
    settingRows,      \* Setting collection: the rows that are not read
                      \* through cfg, in insertion order
    got,              \* the latest getSetting call and what it returned
    toDefault,        \* checkDefaultData: default settings still to visit
    defaultFound,     \* checkDefaultData: answer of the pending
                      \* Setting.findOne({ key })
    fanout,           \* sendIncidentNotifications per task: entries pushed
                      \* to `notifications`, subscribedChats, chats left
    errorLogs,        \* logEvent('error', ..) calls made by the catch block
                      \* of handleIssue
    chatRun,          \* the Telegram 'message' handler running per chat
    chatMeta,         \* chats with a telegram_chat_<id> Setting row
    waClient,         \* the global whatsappClient: 0 for null, else the
                      \* Client object it refers to
    waState,          \* per Client object created: none (not created),
                      \* initializing, ready, failed, closed, destroyed
    waInitDue,        \* calls of initializeWhatsApp still to run: the one
                      \* of initializeSystem, the restart route's timeouts
    waReconnectDue,   \* reconnect timeouts set by 'disconnected' handlers
    waSentOn,         \* states of the client at the sends that passed the
                      \* guard of sendWhatsAppMessage
    wiz,              \* the setup wizard that is running: its prompt, the
                      \* answers and results it holds, readline closed
    envFile,          \* the .env file next to the wizards
    infoFiles,        \* the *-info.json files written
    lastSave,         \* the latest call of saveConfig / saveEmailConfig /
                      \* saveWhatsAppConfig and its arguments
    runs,             \* calls of these three made so far
    lastCmd           \* per chat, the latest of /subscribe and /unsubscribe
                      \* whose handler has returned

vars == <<now, lastStatus, incidents, updatedAt, tasks, incidentCheckers,
          wpending, recoveryCalls, firstResolver, notifications, sends,
          cfg, chanDown, monitoring, liveTimers, nextTimer, stats, storedStats,
          checksRun, published, raised,
          unhandled, serverRows, phase, toLoad, diagnostics, settingRows,
          got, toDefault, defaultFound, fanout, errorLogs,
          chatRun, chatMeta, lastCmd, waClient, waState, waInitDue,
          waReconnectDue, waSentOn, wiz, envFile, infoFiles, lastSave, runs>>

ledgerVars == <<now, lastStatus, incidents, updatedAt, tasks,
                incidentCheckers, wpending, recoveryCalls, firstResolver,
                notifications, sends>>
schedVars == <<monitoring, liveTimers, nextTimer>>
\* What the checks, the ledger and the scheduler leave alone: settings and
\* channel conditions, the status and settings routes, a fan-out in steps
\* The error log, the Telegram chats, the WhatsApp client and the setup
\* wizards
tgVars == <<chatRun, chatMeta, lastCmd>>
waVars == <<waClient, waState, waInitDue, waReconnectDue, waSentOn>>
wizVars == <<wiz, envFile, infoFiles, lastSave, runs>>
auxVars == <<errorLogs, tgVars, waVars, wizVars>>
sideVars == <<diagnostics, settingRows, got, toDefault, defaultFound, fanout,
              auxVars>>
envVars == <<cfg, chanDown, sideVars>>
checkVars == <<stats, storedStats, checksRun, published, raised>>
lifeVars == <<serverRows, phase, toLoad>>

\* ------------------------------------------------------- probe and status
\* What axios.get(apiUrl) produced for one check, with the measured latency
ProbeHealthy ==
    [throws |-> FALSE, online |-> TRUE, hasPlayers |-> TRUE, ponline |-> 3,
     pmax |-> 20, hasVersion |-> TRUE, protocol |-> 671, latency |-> 50]
ProbeThrows ==
    [throws |-> TRUE, online |-> FALSE, hasPlayers |-> FALSE, ponline |-> 0,
     pmax |-> 0, hasVersion |-> FALSE, protocol |-> 0, latency |-> 200]
ProbeOldVersion ==
    [throws |-> FALSE, online |-> TRUE, hasPlayers |-> TRUE, ponline |-> 3,
     pmax |-> 20, hasVersion |-> TRUE, protocol |-> 600, latency |-> 50]

ProbeSlow ==
    [throws |-> FALSE, online |-> TRUE, hasPlayers |-> TRUE, ponline |-> 3,
     pmax |-> 20, hasVersion |-> TRUE, protocol |-> 671, latency |-> 1500]

Probes == {ProbeHealthy, ProbeThrows, ProbeOldVersion}

\* Responses of every shape: reported offline, slow, full, without players
\* or version, with protocol 0, an old or the current protocol
DetectProbes ==
    {[throws |-> th, online |-> on, hasPlayers |-> hp, ponline |-> po,
      pmax |-> pm, hasVersion |-> hv, protocol |-> pr, latency |-> la] :
        th \in BOOLEAN, on \in BOOLEAN, hp \in BOOLEAN, po \in {0, 20},
        pm \in {0, 20}, hv \in BOOLEAN, pr \in {0, 600, 671},
        la \in {1000, 1001}}

\* What the two `await server.save()` of checkServer do: the one that ends
\* the try block and the one in the catch block
StoreOutcomes == {[tryOk |-> a, catchOk |-> b] : a, b \in BOOLEAN}
StoreOk == [tryOk |-> TRUE, catchOk |-> TRUE]

NoStatus ==
    [present |-> FALSE, online |-> FALSE, responseTime |-> 0,
     hasPlayers |-> FALSE, ponline |-> 0, pmax |-> 0,
     hasVersion |-> FALSE, protocol |-> 0]

\* checkServer: the status object built on the success path and in the catch
StatusOf(r) ==
    IF r.throws
    THEN [present |-> TRUE, online |-> FALSE, responseTime |-> r.latency,
          hasPlayers |-> FALSE, ponline |-> 0, pmax |-> 0,
          hasVersion |-> FALSE, protocol |-> 0]
    ELSE [present |-> TRUE, online |-> r.online, responseTime |-> r.latency,
          hasPlayers |-> TRUE,
          ponline |-> IF r.hasPlayers THEN r.ponline ELSE 0,
          pmax |-> IF r.hasPlayers THEN r.pmax ELSE 0,
          hasVersion |-> TRUE,
          protocol |-> IF r.hasVersion THEN r.protocol ELSE -1]

\* checkServer: the status object the catch block builds
CaughtStatus(r) == StatusOf([r EXCEPT !.throws = TRUE])

\* checkServer: the try block got through its `await server.save()`
TrySaved(r, w) == ~r.throws /\ w.tryOk

\* checkServer rejects: the catch block ran and its `await server.save()`
\* threw
CheckThrows(r, w) == ~TrySaved(r, w) /\ ~w.catchOk

NoStats == [totalChecks |-> 0, uptimeChecks |-> 0, totalDowntime |-> 0]

\* checkServer: the writes to server.stats in the try block
StatsAfterTry(st, r) ==
    LET a == [st EXCEPT !.totalChecks = @ + 1]
    IN IF r.throws THEN a
       ELSE IF r.online THEN [a EXCEPT !.uptimeChecks = @ + 1]
       ELSE [a EXCEPT !.totalDowntime = @ + CheckInterval]

\* checkServer: server.stats when the call is over; the catch block adds a
\* downtime interval to whatever the try block had already counted
StatsAfter(st, r, w) ==
    LET a == StatsAfterTry(st, r)
    IN IF TrySaved(r, w) THEN a
       ELSE [a EXCEPT !.totalDowntime = @ + CheckInterval]

IssueSeverity(kind) ==
    CASE kind = "server_offline" -> "critical"
      [] kind = "high_latency" -> "warning"
      [] kind = "full_capacity" -> "warning"
      [] kind = "version_mismatch" -> "info"

\* checkForIssues: the issues array, in push order
CheckForIssues(status) ==
    (IF ~status.online THEN <<"server_offline">> ELSE <<>>)
    \o (IF status.responseTime > LatencyLimit THEN <<"high_latency">> ELSE <<>>)
    \o (IF status.hasPlayers /\ status.ponline = status.pmax /\ status.pmax > 0
        THEN <<"full_capacity">> ELSE <<>>)
    \o (IF status.hasVersion /\ status.protocol # 0
           /\ status.protocol < MinProtocol
        THEN <<"version_mismatch">> ELSE <<>>)

\* ------------------------------------------------ settings and channels
\* The Setting rows checkDefaultData writes, a Telegram bot that started
\* (telegramReady) and one chat that sent /subscribe
DefaultCfg ==
    [email_enabled |-> FALSE, telegram_enabled |-> TRUE,
     whatsapp_enabled |-> FALSE, admin_email |-> TRUE, admin_phone |-> FALSE,
     notify_critical |-> TRUE, notify_warning |-> TRUE, notify_info |-> FALSE,
     subscribed |-> {"c1"},
     emailTransporter |-> FALSE, whatsappReady |-> FALSE,
     telegramReady |-> TRUE]

Recipients == {"adminEmail", "adminPhone", "c1", "c2"}

\* What can reject during a fan-out: the send to a recipient, and the
\* Setting.find that reads the subscribed chats ("subscribers", the recipient
\* the code records for that failure)
Failures == Recipients \cup {"subscribers"}

\* sendEmail / sendWhatsAppMessage / sendTelegramMessage: TRUE when the call
\* returns, FALSE when it throws (readiness guard or provider error)
SendOk(c, down, channel, recipient) ==
    /\ CASE channel = "email" -> c.emailTransporter
         [] channel = "whatsapp" -> c.whatsappReady
         [] channel = "telegram" -> c.telegramReady
    /\ recipient \notin down

\* The severity switch with every case sending
ShouldSend_Always(c, severity) == TRUE

\* sendIncidentNotifications: the switch on incident.severity
ShouldSend(c, severity) ==
    CASE severity = "critical" -> c.notify_critical
      [] severity = "warning" -> c.notify_warning
      [] severity = "info" -> c.notify_info

NotifRecord(i, channel, recipient, ok) ==
    [incident |-> i, type |-> channel, recipient |-> recipient,
     status |-> IF ok THEN "sent" ELSE "failed"]

\* Every chat that ever wrote to the bot, whatever its flag
SubscribedChats_All(c) == Chats

\* settings.filter(s => s.value === true), in store order
SubscribedChats(c) == SelectSeq(Chats, LAMBDA ch : ch \in c.subscribed)

\* The email block with a catch that records nothing
EmailPart_SentOnly(i, c, down) ==
    IF c.email_enabled /\ c.admin_email
          /\ SendOk(c, down, "email", "adminEmail")
    THEN <<NotifRecord(i, "email", "adminEmail", TRUE)>>
    ELSE <<>>

EmailPart(i, c, down) ==
    IF c.email_enabled /\ c.admin_email
    THEN <<NotifRecord(i, "email", "adminEmail",
                       SendOk(c, down, "email", "adminEmail"))>>
    ELSE <<>>

WhatsAppPart(i, c, down) ==
    IF c.whatsapp_enabled /\ c.admin_phone /\ c.whatsappReady
    THEN <<NotifRecord(i, "whatsapp", "adminPhone",
                       SendOk(c, down, "whatsapp", "adminPhone"))>>
    ELSE <<>>

\* The Telegram block: a Setting.find that rejects is caught by the outer
\* catch, which records one failure for 'subscribers' and sends nothing
TelegramPart(i, c, down) ==
    IF c.telegram_enabled /\ c.telegramReady
    THEN IF "subscribers" \in down
         THEN <<NotifRecord(i, "telegram", "subscribers", FALSE)>>
         ELSE LET chats == SubscribedChats(c)
              IN [k \in 1..Len(chats) |->
                     NotifRecord(i, "telegram", chats[k],
                                 SendOk(c, down, "telegram", chats[k]))]
    ELSE <<>>

\* The longest prefix of s that ends with its first failed entry: what one
\* try block around several awaited sends gets through
UntilFirstFailure(s) ==
    LET bad == {k \in 1..Len(s) : s[k].status = "failed"}
    IN IF bad = {} THEN s
       ELSE SubSeq(s, 1, CHOOSE k \in bad : \A m \in bad : k <= m)

\* sendIncidentNotifications with the three channel blocks sharing one try
SendIncidentNotifications_OneTry(i, severity, c, down) ==
    IF ~ShouldSend(c, severity)
    THEN [marked |-> FALSE, records |-> <<>>]
    ELSE [marked |-> TRUE,
          records |-> UntilFirstFailure(EmailPart(i, c, down)
                          \o WhatsAppPart(i, c, down)
                          \o TelegramPart(i, c, down))]

\* sendIncidentNotifications marking the incident only when a send got
\* through
SendIncidentNotifications_MarkIfSent(i, severity, c, down) ==
    LET records == EmailPart(i, c, down) \o WhatsAppPart(i, c, down)
                   \o TelegramPart(i, c, down)
    IN IF ~ShouldSend(c, severity)
       THEN [marked |-> FALSE, records |-> <<>>]
       ELSE [marked |-> \E k \in 1..Len(records) :
                            records[k].status = "sent",
             records |-> records]

\* sendIncidentNotifications(incident, server): marked = notificationsSent
\* was set; records = the Notification rows saved, in order
SendIncidentNotifications(i, severity, c, down) ==
    IF ~ShouldSend(c, severity)
    THEN [marked |-> FALSE, records |-> <<>>]
    ELSE [marked |-> TRUE,
          records |-> EmailPart(i, c, down) \o WhatsAppPart(i, c, down)
                      \o TelegramPart(i, c, down)]

\* sendRecoveryNotification(server, incident): every send sits in the one
\* outer try, no severity switch, no Notification row.  The result is the
\* sequence of sends made, as NotifRecord-shaped entries.
SendRecoveryNotification(i, c, down) ==
    UntilFirstFailure(EmailPart(i, c, down) \o WhatsAppPart(i, c, down)
                      \o TelegramPart(i, c, down))

\* The calls of sendEmail / sendWhatsAppMessage / sendTelegramMessage behind
\* a sequence of records: one per record, but for the 'subscribers' record
SendsOf(records, msg) ==
    {[incident |-> r.incident, msg |-> msg, type |-> r.type,
      recipient |-> r.recipient, ok |-> (r.status = "sent")]
     : r \in {records[k] : k \in 1..Len(records)} \ 
             {rr \in {records[k] : k \in 1..Len(records)} :
                 rr.recipient = "subscribers"}}

\* ---------------------------------------------------------------- ledger
IdleTask ==
    [pc |-> "idle", server |-> "none", issues |-> <<>>, createdAt |-> NoDate,
     incident |-> 0, shouldSend |-> FALSE]

SameKey(inc, s, kind) == inc.serverId = s /\ inc.type = kind

\* The filter with the window test comparing against now itself
DedupMatch_NoWindow(inc, s, kind, t) ==
    /\ SameKey(inc, s, kind)
    /\ inc.status = "active"
    /\ inc.createdAt >= t

\* The filter of Incident.findOne in handleIssue
DedupMatch(inc, s, kind, t) ==
    /\ SameKey(inc, s, kind)
    /\ inc.status = "active"
    /\ inc.createdAt >= t - DedupWindow

\* The paths of incidentSchema the rows carry here
IncidentPaths ==
    {"serverId", "type", "severity", "status", "createdAt", "resolvedAt",
     "notificationsSent"}

\* existingIncident.updatedAt = new Date(): the property is set on the
\* document object
WithUpdatedAt(doc, t) ==
    [p \in DOMAIN doc \cup {"updatedAt"} |->
        IF p = "updatedAt" THEN t ELSE doc[p]]

\* doc.save() under a strict schema: the row gets the schema's paths and
\* nothing else
SaveIncident(doc) == [p \in IncidentPaths |-> doc[p]]

\* Incident.findOne(...): _id of the first matching row, 0 for null
ExistingIncident(rows, s, kind, t) ==
    LET hits == {i \in 1..Len(rows) : DedupMatch(rows[i], s, kind, t)}
    IN IF hits = {} THEN 0 ELSE CHOOSE i \in hits : \A j \in hits : i <= j

\* checkForIssues: for (const issue of issues) await handleIssue(...)
AfterIssue(tk) ==
    IF Len(tk.issues) <= 1 THEN IdleTask
    ELSE [tk EXCEPT !.pc = "find", !.issues = Tail(tk.issues),
                    !.createdAt = NoDate, !.incident = 0,
                    !.shouldSend = FALSE]

PendingSaves == Cardinality({t \in Tasks : tasks[t].pc = "save"})

\* The document checkServer is called on: the one the timer callback closed
\* over, the one startMonitoring is called with (fresh from the store, it
\* becomes the timer's), or the one the check route found
Docs == {"timer", "armed", "found"}

\* server.save(): the paths of stats this document changed are written over
\* the row's, the others are left as the row has them
SaveStats(row, before, after) ==
    [f \in DOMAIN row |-> IF after[f] # before[f] THEN after[f] ELSE row[f]]

\* checkForIssues is called from the try block and from the catch block
\* alike, with nothing left to run before it
ReachesDetection_Always(r, w) == TRUE

\* checkServer gets to its checkForIssues call: the one in the try block
\* follows that block's save and emit, the one in the catch block follows
\* the catch block's
ReachesDetection(r, w) == TrySaved(r, w) \/ w.catchOk

\* checkServer(server) from the return (or throw) of axios.get on: stats and
\* lastStatus are set on the document and saved, the status is published,
\* and its issues are handed to handleIssue
CheckServer(t, s, r, w, doc) ==
    /\ tasks[t].pc = "idle"
    /\ phase # "exited"
    /\ checksRun[s] < MaxChecks
    /\ checksRun' = [checksRun EXCEPT ![s] = @ + 1]
    /\ LET before == IF doc = "timer" THEN stats[s] ELSE storedStats[s]
           after == StatsAfter(before, r, w)
       IN /\ stats' = IF doc = "found" THEN stats
                      ELSE [stats EXCEPT ![s] = after]
          /\ storedStats' =
                 IF CheckThrows(r, w) THEN storedStats
                 ELSE [storedStats EXCEPT ![s] = SaveStats(@, before, after)]
    /\ LET status == IF TrySaved(r, w) THEN StatusOf(r) ELSE CaughtStatus(r)
           issues == CheckForIssues(status)
       IN /\ IF CheckThrows(r, w)
             THEN UNCHANGED <<lastStatus, published>>
             ELSE /\ lastStatus' = [lastStatus EXCEPT ![s] = status]
                  /\ published' = [published EXCEPT ![s] = status]
          /\ IF ReachesDetection(r, w)
             THEN /\ raised' = [raised EXCEPT ![s] = issues]
                  /\ tasks' = [tasks EXCEPT ![t] =
                         IF issues = <<>> THEN IdleTask
                         ELSE [pc |-> "find", server |-> s,
                               issues |-> issues, createdAt |-> NoDate,
                               incident |-> 0, shouldSend |-> FALSE]]
             ELSE UNCHANGED <<raised, tasks>>
    /\ UNCHANGED <<now, incidents, updatedAt, incidentCheckers, wpending,
                   recoveryCalls, firstResolver, notifications, sends>>
    /\ UNCHANGED envVars

\* POST /api/servers/:id/check: findById, then checkServer on that document
ForceCheck(t, s, r, w) ==
    /\ serverRows[s] # "absent"
    /\ CheckServer(t, s, r, w, "found")
    /\ UNCHANGED <<schedVars, lifeVars, unhandled>>

\* handleIssue up to `await incident.save()`: the dedup query answers; a hit
\* sets updatedAt on the document, saves it and returns, a miss builds the
\* new Incident (createdAt defaults to Date.now)
HI_Find(t) ==
    /\ tasks[t].pc = "find"
    /\ LET tk == tasks[t]
           e == ExistingIncident(incidents, tk.server, Head(tk.issues), now)
       IN IF e # 0
          THEN /\ updatedAt' = [updatedAt EXCEPT ![e] = now]
               /\ incidents' = [incidents EXCEPT ![e] =
                      SaveIncident(WithUpdatedAt(@, now))]
               /\ tasks' = [tasks EXCEPT ![t] = AfterIssue(tk)]
          ELSE /\ Len(incidents) + PendingSaves < MaxIncidents
               /\ updatedAt' = updatedAt
               /\ incidents' = incidents
               /\ tasks' = [tasks EXCEPT ![t] =
                      [tk EXCEPT !.pc = "save", !.createdAt = now]]
    /\ UNCHANGED <<now, lastStatus, incidentCheckers, wpending,
                   recoveryCalls, firstResolver, notifications, sends>>
    /\ UNCHANGED <<envVars, schedVars, checkVars, lifeVars, unhandled>>

\* handleIssue: `await incident.save()` inserts the row
HI_Save(t) ==
    /\ tasks[t].pc = "save"
    /\ LET tk == tasks[t]
           kind == Head(tk.issues)
       IN /\ incidents' = Append(incidents,
                 [serverId |-> tk.server, type |-> kind,
                  severity |-> IssueSeverity(kind), status |-> "active",
                  createdAt |-> tk.createdAt, resolvedAt |-> NoDate,
                  notificationsSent |-> FALSE])
          /\ tasks' = [tasks EXCEPT ![t] =
                 [tk EXCEPT !.pc = "notify", !.incident = Len(incidents) + 1]]
    /\ updatedAt' = Append(updatedAt, NoDate)
    /\ recoveryCalls' = Append(recoveryCalls, 0)
    /\ firstResolver' = Append(firstResolver, "none")
    /\ UNCHANGED <<now, lastStatus, incidentCheckers, wpending,
                   notifications, sends>>
    /\ UNCHANGED <<envVars, schedVars, checkVars, lifeVars, unhandled>>

\* A rejection in handleIssue leaving checkForIssues as well
AfterFailure_Abort(tk) == IdleTask

\* handleIssue returns from its catch block like from its try block:
\* checkForIssues goes on with the next issue of its loop
AfterFailure(tk) == AfterIssue(tk)

\* handleIssue's catch block: the store call the invocation is awaiting
\* (Incident.findOne, existingIncident.save() or incident.save()) rejects,
\* the error goes to logEvent('error', ..), which catches its own failures,
\* and handleIssue returns
HI_Catch(t) ==
    /\ tasks[t].pc \in {"find", "save"}
    /\ errorLogs < MaxLogs
    /\ errorLogs' = errorLogs + 1
    /\ tasks' = [tasks EXCEPT ![t] = AfterFailure(tasks[t])]
    /\ UNCHANGED <<now, lastStatus, incidents, updatedAt, incidentCheckers,
                   wpending, recoveryCalls, firstResolver, notifications,
                   sends>>
    /\ UNCHANGED <<schedVars, checkVars, lifeVars, unhandled, cfg, chanDown,
                   diagnostics, settingRows, got, toDefault, defaultFound,
                   fanout, tgVars, waVars, wizVars>>

NoFanout == [records |-> <<>>, snap |-> <<>>, rest |-> <<>>]

\* sendIncidentNotifications in steps. From the settings it reads to the
\* end of the WhatsApp block: the severity switch, then the email and the
\* WhatsApp attempt with the entries they push
FO_Start(t) ==
    /\ tasks[t].pc = "notify"
    /\ LET tk == tasks[t]
           i == tk.incident
           recs == EmailPart(i, cfg, chanDown) \o WhatsAppPart(i, cfg, chanDown)
       IN IF ShouldSend(cfg, incidents[i].severity)
          THEN /\ fanout' = [fanout EXCEPT ![t] =
                      [records |-> recs, snap |-> <<>>, rest |-> <<>>]]
               /\ sends' = sends \cup SendsOf(recs, "incident")
               /\ tasks' = [tasks EXCEPT ![t] = [tk EXCEPT !.pc = "subs"]]
          ELSE /\ tasks' = [tasks EXCEPT ![t] =
                      [tk EXCEPT !.pc = "mark", !.shouldSend = FALSE]]
               /\ UNCHANGED <<fanout, sends>>
    /\ UNCHANGED <<now, lastStatus, incidents, updatedAt, incidentCheckers,
                   wpending, recoveryCalls, firstResolver, notifications>>
    /\ UNCHANGED <<schedVars, checkVars, lifeVars, unhandled, cfg, chanDown,
                   diagnostics, settingRows, got, toDefault, defaultFound,
                   auxVars>>

\* The Telegram block up to the loop: `await Setting.find(..)` answers and
\* the rows with value === true become subscribedChats; a rejected read is
\* caught by the outer catch
FO_Snapshot(t) ==
    /\ tasks[t].pc = "subs"
    /\ LET tk == tasks[t]
           i == tk.incident
       IN /\ fanout' = [fanout EXCEPT ![t] =
                 IF ~(cfg.telegram_enabled /\ cfg.telegramReady) THEN @
                 ELSE IF "subscribers" \in chanDown
                 THEN [@ EXCEPT !.records = Append(@,
                          NotifRecord(i, "telegram", "subscribers", FALSE))]
                 ELSE [@ EXCEPT !.snap = SubscribedChats(cfg),
                                !.rest = SubscribedChats(cfg)]]
          /\ tasks' = [tasks EXCEPT ![t] = [tk EXCEPT !.pc = "chats"]]
    /\ UNCHANGED <<now, lastStatus, incidents, updatedAt, incidentCheckers,
                   wpending, recoveryCalls, firstResolver, notifications,
                   sends>>
    /\ UNCHANGED <<schedVars, checkVars, lifeVars, unhandled, cfg, chanDown,
                   diagnostics, settingRows, got, toDefault, defaultFound,
                   auxVars>>

\* The Telegram loop: sendTelegramMessage to the next chat of
\* subscribedChats and the entry pushed for it
FO_Chat(t) ==
    /\ tasks[t].pc = "chats"
    /\ fanout[t].rest # <<>>
    /\ LET ch == Head(fanout[t].rest)
           rec == NotifRecord(tasks[t].incident, "telegram", ch,
                              SendOk(cfg, chanDown, "telegram", ch))
       IN /\ fanout' = [fanout EXCEPT ![t].records = Append(@, rec),
                                      ![t].rest = Tail(@)]
          /\ sends' = sends \cup SendsOf(<<rec>>, "incident")
    /\ UNCHANGED <<now, lastStatus, incidents, updatedAt, tasks,
                   incidentCheckers, wpending, recoveryCalls, firstResolver,
                   notifications>>
    /\ UNCHANGED <<schedVars, checkVars, lifeVars, unhandled, cfg, chanDown,
                   diagnostics, settingRows, got, toDefault, defaultFound,
                   auxVars>>

\* The loop that saves one Notification row per entry
FO_Records(t) ==
    /\ tasks[t].pc = "chats"
    /\ fanout[t].rest = <<>>
    /\ notifications' = notifications \o fanout[t].records
    /\ tasks' = [tasks EXCEPT ![t] =
           [tasks[t] EXCEPT !.pc = "mark", !.shouldSend = TRUE]]
    /\ UNCHANGED <<now, lastStatus, incidents, updatedAt, incidentCheckers,
                   wpending, recoveryCalls, firstResolver, sends>>
    /\ UNCHANGED <<envVars, schedVars, checkVars, lifeVars, unhandled>>

\* The same with no other callback running in between.
\* handleIssue after the save: sendIncidentNotifications up to the end of
\* the loop that saves the Notification rows
HI_Notify(t) ==
    /\ tasks[t].pc = "notify"
    /\ LET tk == tasks[t]
           i == tk.incident
           out == SendIncidentNotifications(i, incidents[i].severity, cfg,
                                            chanDown)
       IN /\ notifications' = notifications \o out.records
          /\ sends' = sends \cup SendsOf(out.records, "incident")
          /\ tasks' = [tasks EXCEPT ![t] =
                 [tk EXCEPT !.pc = "mark", !.shouldSend = out.marked]]
    /\ UNCHANGED <<now, lastStatus, incidents, updatedAt, incidentCheckers,
                   wpending, recoveryCalls, firstResolver>>
    /\ UNCHANGED <<envVars, schedVars, checkVars, lifeVars, unhandled>>

\* handleIssue without a call of setupRecoveryCheck
ArmsWatcher_Never(kind) == FALSE

\* handleIssue calling setupRecoveryCheck for every issue
ArmsWatcher_Always(kind) == TRUE

\* handleIssue: `if (issue.type === 'server_offline')` before
\* setupRecoveryCheck
ArmsWatcher(kind) == kind = "server_offline"

\* sendIncidentNotifications: incident.notificationsSent = true and its save
\* (not reached after `if (!shouldSend) return`), then back in handleIssue
\* setupRecoveryCheck for a server_offline issue
HI_Mark(t) ==
    /\ tasks[t].pc = "mark"
    /\ LET tk == tasks[t]
           i == tk.incident
       IN /\ incidents' = IF tk.shouldSend
                          THEN [incidents EXCEPT ![i].notificationsSent = TRUE]
                          ELSE incidents
          /\ incidentCheckers' =
                 IF ArmsWatcher(Head(tk.issues))
                 THEN incidentCheckers \cup {i} ELSE incidentCheckers
          /\ tasks' = [tasks EXCEPT ![t] = AfterIssue(tk)]
    /\ UNCHANGED <<now, lastStatus, updatedAt, wpending, recoveryCalls,
                   firstResolver, notifications, sends>>
    /\ UNCHANGED <<envVars, schedVars, checkVars, lifeVars, unhandled>>

\* setupRecoveryCheck: the setInterval callback starts and awaits
\* ServerModel.findById; a callback still waiting does not hold back the next
W_Fire(i) ==
    /\ i \in incidentCheckers
    /\ wpending[i] < MaxOverlap
    /\ wpending' = [wpending EXCEPT ![i] = @ + 1]
    /\ UNCHANGED <<now, lastStatus, incidents, updatedAt, tasks,
                   incidentCheckers, recoveryCalls, firstResolver,
                   notifications, sends>>
    /\ UNCHANGED <<envVars, schedVars, checkVars, lifeVars, unhandled>>

\* What the watcher callback does with `incident` once findById has answered
\* online: status and resolvedAt are set on the closure's document and saved
WatcherResolve(inc, t) == [inc EXCEPT !.status = "resolved", !.resolvedAt = t]

\* setupRecoveryCheck: the callback from the answer of findById on. A row
\* that was deleted answers null and `currentServer.lastStatus` throws into
\* the callback's catch, which only prints. On an online answer the timer
\* is cleared and dropped from incidentCheckers before `await
\* incident.save()`; ok is whether that save is accepted, a rejected one
\* ends the callback in the same catch
WatcherBody(i, ok) ==
    /\ LET srv == incidents[i].serverId
           st == lastStatus[srv]
       IN IF serverRows[srv] # "absent" /\ st.present /\ st.online
          THEN /\ incidentCheckers' = incidentCheckers \ {i}
               /\ IF ok
                  THEN /\ incidents' =
                              [incidents EXCEPT ![i] = WatcherResolve(@, now)]
                       /\ firstResolver' = [firstResolver EXCEPT ![i] =
                              IF incidents[i].status = "active"
                              THEN "watcher" ELSE @]
                       /\ recoveryCalls' =
                              [recoveryCalls EXCEPT ![i] = @ + 1]
                       /\ sends' = sends \cup
                              SendsOf(SendRecoveryNotification(i, cfg,
                                                               chanDown),
                                      "recovery")
                  ELSE UNCHANGED <<incidents, firstResolver, recoveryCalls,
                                   sends>>
          ELSE UNCHANGED <<incidentCheckers, incidents, firstResolver,
                           recoveryCalls, sends>>
    /\ UNCHANGED <<now, lastStatus, updatedAt, tasks, notifications>>
    /\ UNCHANGED <<envVars, schedVars, checkVars, lifeVars, unhandled>>

\* One of the callbacks waiting on findById gets its answer
W_Run(i, ok) ==
    /\ wpending[i] > 0
    /\ wpending' = [wpending EXCEPT ![i] = @ - 1]
    /\ WatcherBody(i, ok)

\* A watcher callback whose findById answers before anything else happens
W_Tick(i, ok) ==
    /\ i \in incidentCheckers
    /\ wpending[i] = 0
    /\ UNCHANGED wpending
    /\ WatcherBody(i, ok)

\* What POST /api/incidents/:id/resolve does with the row it found
RouteResolve(inc, t) == [inc EXCEPT !.status = "resolved", !.resolvedAt = t]

\* POST /api/incidents/:id/resolve
AdminResolve(i) ==
    /\ phase # "exited"
    /\ i \in 1..Len(incidents)
    /\ incidents' = [incidents EXCEPT ![i] = RouteResolve(@, now)]
    /\ firstResolver' = [firstResolver EXCEPT ![i] =
           IF incidents[i].status = "active" THEN "admin" ELSE @]
    /\ UNCHANGED <<now, lastStatus, updatedAt, tasks, incidentCheckers,
                   wpending, recoveryCalls, notifications, sends>>
    /\ UNCHANGED <<envVars, schedVars, checkVars, lifeVars, unhandled>>

\* Time passes
Tick ==
    /\ now + TimeStep <= MaxTime
    /\ now' = now + TimeStep
    /\ UNCHANGED <<lastStatus, incidents, updatedAt, tasks, incidentCheckers,
                   wpending, recoveryCalls, firstResolver, notifications,
                   sends>>
    /\ UNCHANGED <<envVars, schedVars, checkVars, lifeVars, unhandled>>

\* ------------------------------------------------------------- scheduler
TimersOf(live, s) == {tm \in live : tm.server = s}

\* startMonitoring without the clearInterval
RearmTimers_NoClear(live, reg, s, id) ==
    live \cup {[id |-> id, server |-> s]}

\* startMonitoring: clearInterval on the registered handle, if any, then the
\* new setInterval handle
RearmTimers(live, reg, s, id) ==
    (live \ {tm \in live : tm.id = reg[s] /\ reg[s] # 0})
    \cup {[id |-> id, server |-> s]}

\* startMonitoring(server), called by loadServers and by POST and PUT
\* /api/servers: re-arm, register, then the awaited initial check
StartMonitoring(t, s, r, w) ==
    /\ nextTimer <= MaxTimers
    /\ liveTimers' = RearmTimers(liveTimers, monitoring, s, nextTimer)
    /\ monitoring' = [monitoring EXCEPT ![s] = nextTimer]
    /\ nextTimer' = nextTimer + 1
    /\ CheckServer(t, s, r, w, "armed")

\* The setInterval callback of startMonitoring: nothing awaits or catches
\* the promise of `async () => { await this.checkServer(server) }`
TimerFire(t, tm, r, w) ==
    /\ tm \in liveTimers
    /\ CheckServer(t, tm.server, r, w, "timer")
    /\ unhandled' = IF CheckThrows(r, w)
                    THEN unhandled \cup {[server |-> tm.server,
                                          via |-> "timer"]}
                    ELSE unhandled
    /\ UNCHANGED <<schedVars, lifeVars>>

\* Keys handed to monitor.monitoring: startMonitoring uses
\* server._id.toString(), the PUT and DELETE routes pass server._id itself
StringKey(s) == [isString |-> TRUE, id |-> s]
ObjectIdKey(s) == [isString |-> FALSE, id |-> s]

\* Map.prototype.has on monitor.monitoring: every key stored is a string, and
\* an ObjectId is the same value as no string
MonitoringHas(reg, key) == key.isString /\ reg[key.id] # 0

\* stopMonitoring(serverId): the timers left live
StopTimers(live, reg, key) ==
    IF MonitoringHas(reg, key)
    THEN live \ {tm \in live : tm.id = reg[key.id]}
    ELSE live

\* stopMonitoring(serverId): the registry left
StopRegistry(reg, key) ==
    IF MonitoringHas(reg, key) THEN [reg EXCEPT ![key.id] = 0] ELSE reg

\* stopMonitoring(serverId)
StopMonitoring(key) ==
    /\ liveTimers' = StopTimers(liveTimers, monitoring, key)
    /\ monitoring' = StopRegistry(monitoring, key)
    /\ UNCHANGED nextTimer

\* POST /api/servers: the row is saved (isActive defaults to true), then
\* monitor.startMonitoring(server) is called and not awaited
PostServer(t, s, r, w) ==
    /\ phase # "exited"
    /\ serverRows[s] = "absent"
    /\ serverRows' = [serverRows EXCEPT ![s] = "active"]
    /\ StartMonitoring(t, s, r, w)
    /\ unhandled' = IF CheckThrows(r, w)
                    THEN unhandled \cup {[server |-> s, via |-> "route"]}
                    ELSE unhandled
    /\ UNCHANGED <<phase, toLoad>>

\* PUT /api/servers/:id with isActive in the body: findByIdAndUpdate, then
\* startMonitoring (not awaited) or stopMonitoring(server._id)
PutServer(t, s, active, r, w) ==
    /\ phase # "exited"
    /\ serverRows[s] # "absent"
    /\ serverRows' = [serverRows EXCEPT ![s] =
           IF active THEN "active" ELSE "inactive"]
    /\ IF active
       THEN /\ StartMonitoring(t, s, r, w)
            /\ unhandled' =
                   IF CheckThrows(r, w)
                   THEN unhandled \cup {[server |-> s, via |-> "route"]}
                   ELSE unhandled
       ELSE /\ StopMonitoring(ObjectIdKey(s))
            /\ UNCHANGED <<ledgerVars, envVars, checkVars, unhandled>>
    /\ UNCHANGED <<phase, toLoad>>

\* DELETE /api/servers/:id: stopMonitoring(server._id), then deleteOne
DeleteServer(s) ==
    /\ phase # "exited"
    /\ serverRows[s] # "absent"
    /\ StopMonitoring(ObjectIdKey(s))
    /\ serverRows' = [serverRows EXCEPT ![s] = "absent"]
    /\ UNCHANGED <<ledgerVars, envVars, checkVars, unhandled, phase, toLoad>>

\* ------------------------------------------------ settings, status route
\* The keys of the Setting rows followed, and the values written to them
\* (false, the empty string, a number), as JSON text
SettingKeys == {"check_interval", "smtp_user"}
SettingValues == {"false", "''", "30"}

\* defaultSettings of checkDefaultData, in the order of Object.entries
DefaultKeys == <<"check_interval", "smtp_user">>

DefaultValue(k) == IF k = "check_interval" THEN "10" ELSE "''"

\* getSetting's defaultValue = null, and a default a caller supplies
NoDefault == "null"
Defaults == {NoDefault, "true"}

\* Setting.findOne({ key }): the first row with the key, 0 for null
FindOne(rows, k) ==
    IF \E n \in 1..Len(rows) : rows[n].key = k
    THEN CHOOSE n \in 1..Len(rows) :
             /\ rows[n].key = k
             /\ \A m \in 1..(n - 1) : rows[m].key # k
    ELSE 0

\* setSetting: Setting.findOneAndUpdate({ key }, { value, .. },
\* { upsert: true })
SetSettingRows(rows, k, v) ==
    IF FindOne(rows, k) = 0 THEN Append(rows, [key |-> k, value |-> v])
    ELSE [rows EXCEPT ![FindOne(rows, k)].value = v]

\* getSetting: `setting ? setting.value : defaultValue`, and defaultValue
\* from the catch when findOne rejects
GetSettingValue(rows, k, d, ok) ==
    IF ok /\ FindOne(rows, k) # 0 THEN rows[FindOne(rows, k)].value ELSE d

\* The rows checkDefaultData leaves in an empty collection
DefaultRows ==
    [n \in 1..Len(DefaultKeys) |->
        [key |-> DefaultKeys[n], value |-> DefaultValue(DefaultKeys[n])]]

NoCall == [key |-> "none", default |-> NoDefault, ok |-> TRUE,
           value |-> NoDefault]

\* POST /api/settings with one key in the body: setSetting(key, value),
\* which returns false when the store rejects the write
PostSettings(k, v, ok) ==
    /\ phase # "exited"
    /\ settingRows' = IF ok THEN SetSettingRows(settingRows, k, v)
                      ELSE settingRows
    /\ UNCHANGED <<ledgerVars, schedVars, checkVars, lifeVars, unhandled,
                   cfg, chanDown, diagnostics, got, toDefault, defaultFound,
                   fanout, auxVars>>

\* A call getSetting(key, defaultValue)
GetSetting(k, d, ok) ==
    /\ phase # "exited"
    /\ got' = [key |-> k, default |-> d, ok |-> ok,
               value |-> GetSettingValue(settingRows, k, d, ok)]
    /\ UNCHANGED <<ledgerVars, schedVars, checkVars, lifeVars, unhandled,
                   cfg, chanDown, diagnostics, settingRows, toDefault,
                   defaultFound, fanout, auxVars>>

\* /subscribe and /unsubscribe of handleTelegramCommand:
\* setSetting(`telegram_subscribed_${chatId}`, true / false)
SetSubscription(ch, v) ==
    /\ phase # "exited"
    /\ cfg.telegramReady
    /\ cfg' = [cfg EXCEPT !.subscribed = IF v THEN @ \cup {ch} ELSE @ \ {ch}]
    /\ UNCHANGED <<ledgerVars, schedVars, checkVars, lifeVars, unhandled,
                   chanDown, sideVars>>

NoDiagnostics ==
    [called |-> FALSE, of |-> NoStatus, latency |-> 0,
     latencyStatus |-> "none", serverLoad |-> "none"]

\* getServerDiagnostics(server, status) with status = server.lastStatus ||
\* {}: a comparison with undefined is false, `> max * 0.8` on integers is
\* 10 * online > 8 * max
GetServerDiagnostics(status) ==
    [called |-> TRUE, of |-> status,
     latency |-> IF status.present THEN status.responseTime ELSE 0,
     latencyStatus |->
         IF status.present /\ status.responseTime < 100 THEN "excellent"
         ELSE IF status.present /\ status.responseTime < 300 THEN "good"
         ELSE IF status.present /\ status.responseTime < 500 THEN "fair"
         ELSE "poor",
     serverLoad |->
         IF status.present /\ status.hasPlayers
               /\ 10 * status.ponline > 8 * status.pmax
         THEN "high" ELSE "normal"]

\* ---------------------------------------------------------- telegram bot

\* Messages a chat can send: the text, whether text.startsWith('/'), and
\* text.split(' ')[0].toLowerCase()
Texts ==
    {[text |-> "hello", slash |-> FALSE, command |-> "hello"],
     [text |-> "subscribe", slash |-> FALSE, command |-> "subscribe"],
     [text |-> "/start", slash |-> TRUE, command |-> "/start"],
     [text |-> "/help", slash |-> TRUE, command |-> "/help"],
     [text |-> "/Subscribe now", slash |-> TRUE, command |-> "/subscribe"],
     [text |-> "/unsubscribe", slash |-> TRUE, command |-> "/unsubscribe"]}

NoText == [text |-> "", slash |-> FALSE, command |-> ""]
IdleChat == [pc |-> "idle", msg |-> NoText]

\* The subscribed chats after handleTelegramCommand's switch: /subscribe
\* and /unsubscribe call setSetting(`telegram_subscribed_${chatId}`, ..),
\* whose return value (false when the store rejected the write) is not
\* looked at; the other cases only send messages
AfterCommand(subs, ch, command, ok) ==
    IF command = "/subscribe" /\ ok THEN subs \cup {ch}
    ELSE IF command = "/unsubscribe" /\ ok THEN subs \ {ch}
    ELSE subs

\* The 'message' handler up to `await setSetting('telegram_chat_' + chatId)`
TgReceive(ch, m) ==
    /\ phase # "exited"
    /\ cfg.telegramReady
    /\ chatRun[ch].pc = "idle"
    /\ chatRun' = [chatRun EXCEPT ![ch] = [pc |-> "meta", msg |-> m]]
    /\ UNCHANGED <<ledgerVars, schedVars, checkVars, lifeVars, unhandled,
                   cfg, chanDown, diagnostics, settingRows, got, toDefault,
                   defaultFound, fanout, errorLogs, chatMeta, lastCmd,
                   waVars, wizVars>>

\* setSetting of the chat's metadata has returned (ok: the row was
\* written); a text starting with '/' goes to handleTelegramCommand
TgMeta(ch, ok) ==
    /\ chatRun[ch].pc = "meta"
    /\ chatMeta' = IF ok THEN chatMeta \cup {ch} ELSE chatMeta
    /\ chatRun' = [chatRun EXCEPT ![ch] =
           IF chatRun[ch].msg.slash THEN [@ EXCEPT !.pc = "command"]
           ELSE IdleChat]
    /\ UNCHANGED <<ledgerVars, schedVars, checkVars, lifeVars, unhandled,
                   cfg, chanDown, diagnostics, settingRows, got, toDefault,
                   defaultFound, fanout, errorLogs, lastCmd, waVars,
                   wizVars>>

\* handleTelegramCommand: the case of the command, its setSetting (ok: the
\* row was written) and its reply, and the handler returns
TgCommand(ch, ok) ==
    /\ chatRun[ch].pc = "command"
    /\ LET command == chatRun[ch].msg.command
       IN /\ cfg' = [cfg EXCEPT !.subscribed =
                         AfterCommand(@, ch, command, ok)]
          /\ lastCmd' = [lastCmd EXCEPT ![ch] =
                 IF command \in {"/subscribe", "/unsubscribe"}
                 THEN command ELSE @]
    /\ chatRun' = [chatRun EXCEPT ![ch] = IdleChat]
    /\ UNCHANGED <<ledgerVars, schedVars, checkVars, lifeVars, unhandled,
                   chanDown, diagnostics, settingRows, got, toDefault,
                   defaultFound, fanout, errorLogs, chatMeta, waVars,
                   wizVars>>

\* ------------------------------------------------------- whatsapp client
\* What the WhatsApp actions leave alone
waFrame == <<ledgerVars, schedVars, checkVars, lifeVars, unhandled, chanDown,
             diagnostics, settingRows, got, toDefault, defaultFound, fanout,
             errorLogs, tgVars, wizVars>>

\* Client objects created so far
Created == {c \in Clients : waState[c] # "none"}

\* initializeWhatsApp, called by initializeSystem or by a timeout of the
\* restart route: nothing happens when whatsapp_enabled is off, otherwise
\* whatsappClient is replaced by a new Client, which starts initializing
InitializeWhatsApp ==
    /\ phase # "exited"
    /\ waInitDue > 0
    /\ waInitDue' = waInitDue - 1
    /\ IF cfg.whatsapp_enabled
       THEN /\ Cardinality(Created) < MaxClients
            /\ waClient' = Cardinality(Created) + 1
            /\ waState' = [waState EXCEPT ![Cardinality(Created) + 1] =
                               "initializing"]
       ELSE UNCHANGED <<waClient, waState>>
    /\ UNCHANGED <<cfg, waReconnectDue, waSentOn, waFrame>>

\* The 'ready' handler of Client c: it sets the global flag
WaReady(c) ==
    /\ waState[c] = "initializing"
    /\ waState' = [waState EXCEPT ![c] = "ready"]
    /\ cfg' = [cfg EXCEPT !.whatsappReady = TRUE]
    /\ UNCHANGED <<waClient, waInitDue, waReconnectDue, waSentOn, waFrame>>

\* The 'auth_failure' handler of Client c
WaAuthFailure(c) ==
    /\ waState[c] = "initializing"
    /\ waState' = [waState EXCEPT ![c] = "failed"]
    /\ cfg' = [cfg EXCEPT !.whatsappReady = FALSE]
    /\ UNCHANGED <<waClient, waInitDue, waReconnectDue, waSentOn, waFrame>>

\* The 'disconnected' handler of Client c: flag off, and a timeout of 5 s
\* is set
WaDisconnected(c) ==
    /\ waState[c] = "ready"
    /\ waReconnectDue < MaxClients
    /\ waState' = [waState EXCEPT ![c] = "closed"]
    /\ cfg' = [cfg EXCEPT !.whatsappReady = FALSE]
    /\ waReconnectDue' = waReconnectDue + 1
    /\ UNCHANGED <<waClient, waInitDue, waSentOn, waFrame>>

\* The timeout of a 'disconnected' handler: `if (!whatsappReady)
\* whatsappClient.initialize()`, on whatever Client the global holds then
WaReconnect ==
    /\ waReconnectDue > 0
    /\ waReconnectDue' = waReconnectDue - 1
    /\ waState' = IF ~cfg.whatsappReady /\ waClient # 0
                  THEN [waState EXCEPT ![waClient] = "initializing"]
                  ELSE waState
    /\ UNCHANGED <<cfg, waClient, waInitDue, waSentOn, waFrame>>

\* POST /api/whatsapp/restart: `await whatsappClient.destroy()` when there
\* is a client, then a timeout of 2 s that calls initializeWhatsApp. The
\* route assigns neither whatsappReady nor whatsappClient; destroy() closes
\* the client's browser
WaRestart ==
    /\ phase # "exited"
    /\ Cardinality(Created) + waInitDue < MaxClients
    /\ waState' = IF waClient # 0
                  THEN [waState EXCEPT ![waClient] = "destroyed"]
                  ELSE waState
    /\ waInitDue' = waInitDue + 1
    /\ UNCHANGED <<cfg, waClient, waReconnectDue, waSentOn, waFrame>>

\* sendWhatsAppMessage: it throws at once unless whatsappReady and
\* whatsappClient are set, and otherwise goes on to
\* whatsappClient.sendMessage
SendWhatsAppMessage ==
    /\ phase # "exited"
    /\ waSentOn' = IF cfg.whatsappReady /\ waClient # 0
                   THEN waSentOn \cup {waState[waClient]}
                   ELSE waSentOn
    /\ UNCHANGED <<cfg, waClient, waState, waInitDue, waReconnectDue,
                   waFrame>>

\* ---------------------------------------------------------- setup wizards
\* What the wizards leave alone: they are programs of their own
wizFrame == <<ledgerVars, schedVars, checkVars, lifeVars, unhandled, cfg,
              chanDown, diagnostics, settingRows, got, toDefault,
              defaultFound, fanout, errorLogs, tgVars, waVars>>

\* A .env file is the sequence of its pieces: a key with its '=' sign, a
\* value, a '#', a comment text, or a line feed
NL == "\n"
NoFile == [exists |-> FALSE, text |-> <<>>]

TelegramKeys == <<"TELEGRAM_BOT_TOKEN=", "TELEGRAM_CHAT_ID=">>
EmailKeys == <<"EMAIL_ENABLED=", "SMTP_USER=", "SMTP_PASSWORD=",
               "ADMIN_EMAIL=", "SMTP_FROM=">>
WhatsAppKeys == <<"WHATSAPP_ENABLED=", "ADMIN_PHONE=">>

\* text.replace(/KEY=.*\n/g, ''): every match, from an occurrence of the
\* key text anywhere in a line through the next line feed, is cut out; an
\* occurrence with no line feed after it does not match
RECURSIVE RemoveKey(_, _)
RemoveKey(text, key) ==
    IF text = <<>> THEN <<>>
    ELSE IF Head(text) = key /\ \E j \in 2..Len(text) : text[j] = NL
    THEN LET j == CHOOSE j \in 2..Len(text) :
                      /\ text[j] = NL
                      /\ \A k \in 2..(j - 1) : text[k] # NL
         IN RemoveKey(SubSeq(text, j + 1, Len(text)), key)
    ELSE <<Head(text)>> \o RemoveKey(Tail(text), key)

\* The replace calls of one wizard, in the order of its keys
RECURSIVE RemoveKeys(_, _)
RemoveKeys(text, keys) ==
    IF keys = <<>> THEN text
    ELSE RemoveKeys(RemoveKey(text, Head(keys)), Tail(keys))

\* saveConfig(token, chatId, botInfo) of setup-telegram.js: the .env text
\* it writes
SaveConfig(file, token, chatId) ==
    [exists |-> TRUE,
     text |-> (IF file.exists THEN RemoveKeys(file.text, TelegramKeys)
               ELSE <<"# Forexter Network Configuration", NL, NL>>)
              \o <<NL, "# Telegram Bot Configuration", NL,
                   "TELEGRAM_BOT_TOKEN=", token, NL,
                   "TELEGRAM_CHAT_ID=", chatId, NL>>]

\* saveEmailConfig(email, password) of setup-email.js
SaveEmailConfig(file, email, password) ==
    [exists |-> TRUE,
     text |-> (IF file.exists THEN RemoveKeys(file.text, EmailKeys)
               ELSE <<>>)
              \o <<NL, "# Email Configuration", NL,
                   "EMAIL_ENABLED=", "true", NL,
                   "SMTP_USER=", email, NL,
                   "SMTP_PASSWORD=", password, NL,
                   "ADMIN_EMAIL=", email, NL,
                   "SMTP_FROM=", "Forexter Monitor <", email, ">", NL>>]

\* saveWhatsAppConfig(clientInfo) of setup-whatsapp.js, with
\* clientInfo.wid.user
SaveWhatsAppConfig(file, phone) ==
    [exists |-> TRUE,
     text |-> (IF file.exists THEN RemoveKeys(file.text, WhatsAppKeys)
               ELSE <<>>)
              \o <<NL, "# WhatsApp Configuration", NL,
                   "WHATSAPP_ENABLED=", "true", NL,
                   "ADMIN_PHONE=", phone, NL>>]

NoSave == [wizard |-> "none", values |-> <<>>]

\* Tokens typed at the first prompt: the text and its length
Tokens ==
    {[id |-> "", len |-> 0], [id |-> "t29", len |-> 29],
     [id |-> "t30", len |-> 30], [id |-> "t46", len |-> 46]}
NoToken == [id |-> "", len |-> 0]

\* The test of the token prompt with the empty token only
TokenValid_NonEmpty(token) == token.len > 0

\* setupTelegram: `if (!token || token.length < 30)` is the invalid case
TokenValid(token) == token.len > 0 /\ token.len >= MinTokenLen

\* What axios.get(.../getMe) can give: data.ok, a response with ok false,
\* a rejection
GetMeOutcomes == {"ok", "notok", "error"}

\* Answers to the chat id prompts
ChatIdInputs == {"", "77"}

NoWiz ==
    [pc |-> "none", closed |-> FALSE, saved |-> FALSE, token |-> NoToken,
     getMe |-> "none", email |-> "", password |-> "", verified |-> FALSE,
     sent |-> FALSE, retried |-> FALSE]

\* A wizard at its first prompt
WizAt(pc) == [NoWiz EXCEPT !.pc = pc]

\* setupTelegram: the answer to the token prompt
TwToken(token) ==
    /\ wiz.pc = "token"
    /\ wiz' = IF TokenValid(token)
              THEN [wiz EXCEPT !.pc = "getMe", !.token = token]
              ELSE [wiz EXCEPT !.pc = "done", !.token = token,
                               !.closed = TRUE]
    /\ UNCHANGED <<envFile, infoFiles, lastSave, runs, wizFrame>>

\* setupTelegram: the getMe request has answered or failed
TwGetMe(out) ==
    /\ wiz.pc = "getMe"
    /\ wiz' = IF out = "ok"
              THEN [wiz EXCEPT !.pc = "chat", !.getMe = out]
              ELSE [wiz EXCEPT !.pc = "done", !.getMe = out,
                               !.closed = TRUE]
    /\ UNCHANGED <<envFile, infoFiles, lastSave, runs, wizFrame>>

\* saveConfig as a step of the wizard, rl.close() after it
TwSave(chatId) ==
    /\ envFile' = SaveConfig(envFile, wiz.token.id, chatId)
    /\ infoFiles' = infoFiles \cup {"telegram-bot-info.json"}
    /\ lastSave' = [wizard |-> "telegram",
                    values |-> <<wiz.token.id, chatId>>]
    /\ runs' = runs + 1
    /\ wiz' = [wiz EXCEPT !.pc = "done", !.saved = TRUE, !.closed = TRUE]

\* setupTelegram: the answer to the chat id prompt, an empty one leads to
\* the second prompt
TwChat(chatId) ==
    /\ wiz.pc = "chat"
    /\ IF chatId = ""
       THEN /\ wiz' = [wiz EXCEPT !.pc = "chat2"]
            /\ UNCHANGED <<envFile, infoFiles, lastSave, runs>>
       ELSE TwSave(chatId)
    /\ UNCHANGED wizFrame

\* setupTelegram: the answer to the second chat id prompt
TwChat2(chatId) ==
    /\ wiz.pc = "chat2"
    /\ TwSave(chatId)
    /\ UNCHANGED wizFrame

\* Answers at the prompts of the e-mail wizard
Emails == {"e1", "e2"}
Passwords == {"p1"}

\* Answers to 'Coba lagi? (y/n)' and answer.toLowerCase(); `retried` of
\* the wizard records that setupEmail was called again
Answers == {"y", "Y", "n", ""}
ToLowerCase(a) == IF a = "Y" THEN "y" ELSE a

\* setupEmail going on to sendMail whatever verify did
AfterVerify_Ignore(ok) == "sendMail"

\* setupEmail: a rejected transporter.verify() goes to the catch block
AfterVerify(ok) == IF ok THEN "sendMail" ELSE "retry"

\* setupEmail: the answer to the e-mail prompt
EwEmail(email) ==
    /\ wiz.pc = "email"
    /\ wiz' = [wiz EXCEPT !.pc = "password", !.email = email]
    /\ UNCHANGED <<envFile, infoFiles, lastSave, runs, wizFrame>>

\* setupEmail: the answer to the password prompt, createTransport
EwPassword(password) ==
    /\ wiz.pc = "password"
    /\ wiz' = [wiz EXCEPT !.pc = "verify", !.password = password]
    /\ UNCHANGED <<envFile, infoFiles, lastSave, runs, wizFrame>>

\* setupEmail: `await transporter.verify()` has returned or thrown
EwVerify(ok) ==
    /\ wiz.pc = "verify"
    /\ wiz' = [wiz EXCEPT !.pc = AfterVerify(ok), !.verified = ok]
    /\ UNCHANGED <<envFile, infoFiles, lastSave, runs, wizFrame>>

\* setupEmail: `await transporter.sendMail(..)` has returned, followed by
\* saveEmailConfig and rl.close(), or has thrown into the catch block
EwSendMail(ok) ==
    /\ wiz.pc = "sendMail"
    /\ IF ok
       THEN /\ envFile' = SaveEmailConfig(envFile, wiz.email, wiz.password)
            /\ infoFiles' = infoFiles \cup {"email-info.json"}
            /\ lastSave' = [wizard |-> "email",
                            values |-> <<wiz.email, wiz.password>>]
            /\ runs' = runs + 1
            /\ wiz' = [wiz EXCEPT !.pc = "done", !.sent = TRUE,
                                  !.saved = TRUE, !.closed = TRUE]
       ELSE /\ wiz' = [wiz EXCEPT !.pc = "retry"]
            /\ UNCHANGED <<envFile, infoFiles, lastSave, runs>>
    /\ UNCHANGED wizFrame

\* setupEmail: the answer to the retry prompt, 'y' calls setupEmail again
EwRetry(answer) ==
    /\ wiz.pc = "retry"
    /\ wiz' = IF ToLowerCase(answer) = "y"
              THEN [WizAt("email") EXCEPT !.retried = TRUE]
              ELSE [wiz EXCEPT !.pc = "done", !.closed = TRUE]
    /\ UNCHANGED <<envFile, infoFiles, lastSave, runs, wizFrame>>

\* Values the three save functions are called with
Values == {"b", "c"}

\* One run of setup-telegram.js that gets to saveConfig
RunSaveConfig(token, chatId) ==
    /\ runs < MaxRuns
    /\ runs' = runs + 1
    /\ envFile' = SaveConfig(envFile, token, chatId)
    /\ infoFiles' = infoFiles \cup {"telegram-bot-info.json"}
    /\ lastSave' = [wizard |-> "telegram", values |-> <<token, chatId>>]
    /\ UNCHANGED <<wiz, wizFrame>>

\* One run of setup-email.js that gets to saveEmailConfig
RunSaveEmailConfig(email, password) ==
    /\ runs < MaxRuns
    /\ runs' = runs + 1
    /\ envFile' = SaveEmailConfig(envFile, email, password)
    /\ infoFiles' = infoFiles \cup {"email-info.json"}
    /\ lastSave' = [wizard |-> "email", values |-> <<email, password>>]
    /\ UNCHANGED <<wiz, wizFrame>>

\* One run of setup-whatsapp.js that gets to saveWhatsAppConfig, in the
\* 'ready' handler of its client
RunSaveWhatsAppConfig(phone) ==
    /\ runs < MaxRuns
    /\ runs' = runs + 1
    /\ envFile' = SaveWhatsAppConfig(envFile, phone)
    /\ infoFiles' = infoFiles \cup {"whatsapp-info.json"}
    /\ lastSave' = [wizard |-> "whatsapp", values |-> <<phone>>]
    /\ UNCHANGED <<wiz, wizFrame>>

\* ------------------------------------------------------ startup, shutdown
\* The order in which ServerModel.find returns the rows
ServerOrder == <<"s1", "s2">>

\* The server checkDefaultData creates when the collection is empty
DefaultServer == "s1"

\* ServerModel.find({ isActive: true })
ActiveServers(rows) == SelectSeq(ServerOrder, LAMBDA s : rows[s] = "active")

\* initializeSystem -> monitor.init -> loadServers up to the for loop; a
\* find() that throws is caught and logged, and nothing is started
LoadServers(ok) ==
    /\ phase = "start"
    /\ toLoad' = IF ok THEN ActiveServers(serverRows) ELSE <<>>
    /\ phase' = "load"
    /\ UNCHANGED <<ledgerVars, envVars, schedVars, checkVars, unhandled,
                   serverRows>>

\* loadServers: `await this.startMonitoring(server)` for the next server; the
\* one before has returned, and a check that throws ends the loop in the
\* catch of loadServers
LoadNext(r, w) ==
    /\ phase = "load"
    /\ toLoad # <<>>
    /\ StartMonitoring(1, Head(toLoad), r, w)
    /\ toLoad' = IF CheckThrows(r, w) THEN <<>> ELSE Tail(toLoad)
    /\ UNCHANGED <<serverRows, phase, unhandled>>

\* initializeSystem after monitor.init(): checkDefaultData saves the default
\* server when ServerModel.findOne() finds no row, and initialization is
\* complete
CheckDefaultData ==
    /\ phase = "load"
    /\ toLoad = <<>>
    /\ tasks[1].pc = "idle"
    /\ serverRows' = IF \A s \in Servers : serverRows[s] = "absent"
                     THEN [serverRows EXCEPT ![DefaultServer] = "active"]
                     ELSE serverRows
    /\ phase' = "defaults"
    /\ toDefault' = DefaultKeys
    /\ defaultFound' = "unknown"
    /\ UNCHANGED <<ledgerVars, schedVars, checkVars, unhandled, toLoad, cfg,
                   chanDown, diagnostics, settingRows, got, fanout, auxVars>>

\* checkDefaultData: `const exists = await Setting.findOne({ key })` for the
\* next default; a key that exists is skipped at once, and after the last
\* key initialization is complete
DefaultFind ==
    /\ phase = "defaults"
    /\ defaultFound = "unknown"
    /\ IF FindOne(settingRows, Head(toDefault)) # 0
       THEN /\ toDefault' = Tail(toDefault)
            /\ phase' = IF Tail(toDefault) = <<>> THEN "running" ELSE phase
            /\ UNCHANGED defaultFound
       ELSE /\ defaultFound' = "absent"
            /\ UNCHANGED <<toDefault, phase>>
    /\ UNCHANGED <<ledgerVars, schedVars, checkVars, unhandled, toLoad,
                   serverRows, cfg, chanDown, diagnostics, settingRows, got,
                   fanout, auxVars>>

\* checkDefaultData: `await setSetting(key, value, ..)` for a key that
\* findOne did not find
DefaultSet(ok) ==
    /\ phase = "defaults"
    /\ defaultFound = "absent"
    /\ settingRows' =
           IF ok THEN SetSettingRows(settingRows, Head(toDefault),
                                     DefaultValue(Head(toDefault)))
           ELSE settingRows
    /\ toDefault' = Tail(toDefault)
    /\ defaultFound' = "unknown"
    /\ phase' = IF Tail(toDefault) = <<>> THEN "running" ELSE phase
    /\ UNCHANGED <<ledgerVars, schedVars, checkVars, unhandled, toLoad,
                   serverRows, cfg, chanDown, diagnostics, got, fanout, auxVars>>

\* GET /api/status: the first active server, getServerDiagnostics on its
\* lastStatus
ApiStatus ==
    /\ phase # "exited"
    /\ ActiveServers(serverRows) # <<>>
    /\ diagnostics' =
           GetServerDiagnostics(lastStatus[Head(ActiveServers(serverRows))])
    /\ UNCHANGED <<ledgerVars, schedVars, checkVars, lifeVars, unhandled,
                   cfg, chanDown, settingRows, got, toDefault, defaultFound,
                   fanout, auxVars>>

\* The SIGTERM handler up to `await whatsappClient.destroy()`: clearInterval
\* on every entry of monitor.monitoring
Sigterm ==
    /\ phase = "running"
    /\ liveTimers' = {tm \in liveTimers : monitoring[tm.server] # tm.id}
    /\ phase' = "releasing"
    /\ UNCHANGED <<ledgerVars, envVars, checkVars, unhandled, monitoring,
                   nextTimer, serverRows, toLoad>>

\* The SIGTERM handler: the WhatsApp client is destroyed, the Telegram bot
\* stops polling, `await mongoose.connection.close()` is called
ReleaseClients ==
    /\ phase = "releasing"
    /\ phase' = "closing"
    /\ UNCHANGED <<ledgerVars, envVars, schedVars, checkVars, unhandled,
                   serverRows, toLoad>>

\* The SIGTERM handler: the connection is closed and process.exit(0) ends
\* every timer and callback of the process
CloseAndExit ==
    /\ phase = "closing"
    /\ phase' = "exited"
    /\ liveTimers' = {}
    /\ incidentCheckers' = {}
    /\ wpending' = [i \in 1..MaxIncidents |-> 0]
    /\ tasks' = [t \in Tasks |-> IdleTask]
    /\ UNCHANGED <<now, lastStatus, incidents, updatedAt, recoveryCalls,
                   firstResolver, notifications, sends, envVars, checkVars,
                   unhandled, monitoring, nextTimer, serverRows, toLoad>>

\* ---------------------------------------------------------- specifications
InitLedger ==
    /\ now = 0
    /\ lastStatus = [s \in Servers |-> NoStatus]
    /\ incidents = <<>>
    /\ updatedAt = <<>>
    /\ tasks = [t \in Tasks |-> IdleTask]
    /\ incidentCheckers = {}
    /\ wpending = [i \in 1..MaxIncidents |-> 0]
    /\ recoveryCalls = <<>>
    /\ firstResolver = <<>>
    /\ notifications = <<>>
    /\ sends = {}

InitLog == errorLogs = 0

InitTg ==
    /\ chatRun = [ch \in ChatIds |-> IdleChat]
    /\ chatMeta = {}
    /\ lastCmd = [ch \in ChatIds |-> "none"]

\* The WhatsApp client that goes with the readiness flag of cfg: none
\* when initializeWhatsApp found WhatsApp disabled or has not got to
\* 'ready', the first Client object, ready, otherwise
InitWa ==
    /\ waClient = IF cfg.whatsappReady THEN 1 ELSE 0
    /\ waState = [c \in Clients |->
                      IF c = 1 /\ cfg.whatsappReady THEN "ready" ELSE "none"]
    /\ waInitDue = 0
    /\ waReconnectDue = 0
    /\ waSentOn = {}

\* No wizard is running and none has run
InitWiz ==
    /\ wiz = NoWiz
    /\ envFile = NoFile
    /\ infoFiles = {}
    /\ lastSave = NoSave
    /\ runs = 0

InitAux ==
    /\ InitLog
    /\ InitTg
    /\ InitWiz

\* ServerMonitor and what the routes and startup keep
InitEngine ==
    /\ monitoring = [s \in Servers |-> 0]
    /\ liveTimers = {}
    /\ nextTimer = 1
    /\ stats = [s \in Servers |-> NoStats]
    /\ storedStats = [s \in Servers |-> NoStats]
    /\ checksRun = [s \in Servers |-> 0]
    /\ published = [s \in Servers |-> NoStatus]
    /\ raised = [s \in Servers |-> <<>>]
    /\ unhandled = {}
    /\ toLoad = <<>>
    /\ diagnostics = NoDiagnostics
    /\ got = NoCall
    /\ toDefault = <<>>
    /\ defaultFound = "unknown"
    /\ fanout = [t \in Tasks |-> NoFanout]

InitSched ==
    /\ InitAux
    /\ InitEngine

\* The process is up, both servers are rows of the store
InitRunning ==
    /\ phase = "running"
    /\ serverRows = [s \in Servers |-> "active"]
    /\ settingRows = DefaultRows

Init ==
    /\ InitLedger
    /\ InitSched
    /\ InitRunning
    /\ cfg = DefaultCfg
    /\ chanDown = {}
    /\ InitWa

\* The server whose checks the ledger specifications follow
Checked == {"s1"}

\* The ledger with checks of one server overlapping freely
Next ==
    \/ \E t \in Tasks, s \in Checked, r \in Probes : ForceCheck(t, s, r, StoreOk)
    \/ \E t \in Tasks : HI_Find(t)
    \/ \E t \in Tasks : HI_Save(t)
    \/ \E t \in Tasks : HI_Notify(t)
    \/ \E t \in Tasks : HI_Mark(t)
    \/ \E i \in 1..MaxIncidents : W_Fire(i)
    \/ \E i \in 1..MaxIncidents : W_Run(i, TRUE)
    \/ \E i \in 1..MaxIncidents : AdminResolve(i)
    \/ Tick

Spec == Init /\ [][Next]_vars

\* The ledger with one callback at a time: a check starts when the one
\* before has returned, a watcher callback runs through at once
NextSeq ==
    \/ \E s \in Checked, r \in Probes : ForceCheck(1, s, r, StoreOk)
    \/ HI_Find(1)
    \/ HI_Save(1)
    \/ HI_Notify(1)
    \/ HI_Mark(1)
    \/ \E i \in 1..MaxIncidents : W_Tick(i, TRUE)
    \/ \E i \in 1..MaxIncidents : AdminResolve(i)
    \/ Tick

SpecSeq == Init /\ [][NextSeq]_vars

\* The probe outcomes the scheduler specification draws from
SchedProbes == {ProbeHealthy, ProbeThrows}

\* The scheduler registry: servers armed and re-armed through the PUT
\* route, timer callbacks, and the checks they run
NextSched ==
    \/ \E s \in Servers, r \in SchedProbes : PutServer(1, s, TRUE, r, StoreOk)
    \/ \E tm \in liveTimers, r \in SchedProbes : TimerFire(2, tm, r, StoreOk)
    \/ \E t \in Tasks : HI_Find(t)
    \/ \E t \in Tasks : HI_Save(t)
    \/ \E t \in Tasks : HI_Notify(t)
    \/ \E t \in Tasks : HI_Mark(t)

SpecSched == Init /\ [][NextSched]_vars

\* Channel settings and readiness flags in every combination, an admin
\* address and phone configured, two subscribed chats
ChannelCfgs ==
    {[DefaultCfg EXCEPT !.email_enabled = f[1], !.whatsapp_enabled = f[2],
                        !.telegram_enabled = f[3], !.emailTransporter = f[4],
                        !.whatsappReady = f[5], !.telegramReady = f[6],
                        !.admin_phone = TRUE, !.subscribed = {"c1", "c2"}]
     : f \in [1..6 -> BOOLEAN]}

InitFanout ==
    /\ InitLedger
    /\ InitSched
    /\ InitRunning
    /\ cfg \in ChannelCfgs
    /\ chanDown \in SUBSET Recipients
    /\ InitWa

\* One server checked again and again under fixed channel conditions
NextFanout ==
    \/ \E s \in Checked, r \in Probes : ForceCheck(1, s, r, StoreOk)
    \/ HI_Find(1)
    \/ HI_Save(1)
    \/ HI_Notify(1)
    \/ HI_Mark(1)
    \/ \E i \in 1..MaxIncidents : W_Tick(i, TRUE)

SpecFanout == InitFanout /\ [][NextFanout]_vars

\* Channel settings in every combination, and every set of rejecting sends
\* and subscriber reads
InitRecords ==
    /\ InitLedger
    /\ InitSched
    /\ InitRunning
    /\ cfg \in ChannelCfgs
    /\ chanDown \in SUBSET Failures
    /\ InitWa

SpecRecords == InitRecords /\ [][NextFanout]_vars

\* The notify_critical / notify_warning / notify_info rows in every
\* combination
GateCfgs ==
    {[DefaultCfg EXCEPT !.notify_critical = f[1], !.notify_warning = f[2],
                        !.notify_info = f[3]]
     : f \in [1..3 -> BOOLEAN]}

InitGate ==
    /\ InitLedger
    /\ InitSched
    /\ InitRunning
    /\ cfg \in GateCfgs
    /\ chanDown = {}
    /\ InitWa

\* One server checked again and again, with issues of all three severities
NextGate ==
    \/ \E s \in Checked, r \in Probes \cup {ProbeSlow} :
           ForceCheck(1, s, r, StoreOk)
    \/ HI_Find(1)
    \/ HI_Save(1)
    \/ HI_Notify(1)
    \/ HI_Mark(1)
    \/ \E i \in 1..MaxIncidents : W_Tick(i, TRUE)

SpecGate == InitGate /\ [][NextGate]_vars

\* The probe outcomes and store outcomes the administration, startup and
\* shutdown specifications draw from
AdminProbes == {ProbeHealthy, ProbeThrows}

\* An empty store that the administrator fills through the routes
InitAdmin ==
    /\ InitLedger
    /\ InitSched
    /\ phase = "running"
    /\ serverRows = [s \in Servers |-> "absent"]
    /\ settingRows = DefaultRows
    /\ cfg = DefaultCfg
    /\ chanDown = {}
    /\ InitWa

\* Servers are added, updated and deleted while their timers fire
NextAdmin ==
    \/ \E s \in Servers, r \in AdminProbes : PostServer(1, s, r, StoreOk)
    \/ \E s \in Servers, a \in BOOLEAN, r \in AdminProbes :
           PutServer(1, s, a, r, StoreOk)
    \/ \E s \in Servers : DeleteServer(s)
    \/ \E tm \in liveTimers, r \in AdminProbes :
           TimerFire(2, tm, r, StoreOk)
    \/ \E t \in Tasks : HI_Find(t)
    \/ \E t \in Tasks : HI_Save(t)
    \/ \E t \in Tasks : HI_Notify(t)
    \/ \E t \in Tasks : HI_Mark(t)

SpecAdmin == InitAdmin /\ [][NextAdmin]_vars

\* One server is armed and its timer fires while the store accepts or
\* rejects the writes of each check
NextCheck ==
    \/ \E s \in Checked, r \in AdminProbes, w \in StoreOutcomes :
           PutServer(1, s, TRUE, r, w)
    \/ \E tm \in liveTimers, r \in AdminProbes, w \in StoreOutcomes :
           TimerFire(2, tm, r, w)
    \/ \E t \in Tasks : HI_Find(t)
    \/ \E t \in Tasks : HI_Save(t)
    \/ \E t \in Tasks : HI_Notify(t)
    \/ \E t \in Tasks : HI_Mark(t)

SpecCheck == Init /\ [][NextCheck]_vars

\* One server is armed, its timer fires and the check route is called on it
NextWriters ==
    \/ \E s \in Checked, r \in AdminProbes : PutServer(1, s, TRUE, r, StoreOk)
    \/ \E tm \in liveTimers, r \in AdminProbes : TimerFire(2, tm, r, StoreOk)
    \/ \E s \in Checked, r \in AdminProbes : ForceCheck(1, s, r, StoreOk)
    \/ \E t \in Tasks : HI_Find(t)
    \/ \E t \in Tasks : HI_Save(t)
    \/ \E t \in Tasks : HI_Notify(t)
    \/ \E t \in Tasks : HI_Mark(t)

SpecWriters == Init /\ [][NextWriters]_vars

\* One server checked once or more with responses of every shape
NextDetect ==
    \/ \E s \in Checked, r \in DetectProbes : ForceCheck(1, s, r, StoreOk)
    \/ HI_Find(1)
    \/ HI_Save(1)
    \/ HI_Notify(1)
    \/ HI_Mark(1)

SpecDetect == Init /\ [][NextDetect]_vars

\* The process starts on a store holding any rows
InitBoot ==
    /\ InitLedger
    /\ InitSched
    /\ phase = "start"
    /\ serverRows \in [Servers -> {"absent", "active", "inactive"}]
    /\ settingRows = <<>>
    /\ cfg = DefaultCfg
    /\ chanDown = {}
    /\ InitWa

\* initializeSystem from monitor.init() on, the armed timers firing meanwhile
NextBoot ==
    \/ \E ok \in BOOLEAN : LoadServers(ok)
    \/ \E r \in AdminProbes, w \in StoreOutcomes : LoadNext(r, w)
    \/ CheckDefaultData
    \/ DefaultFind
    \/ DefaultSet(TRUE)
    \/ \E tm \in liveTimers, r \in AdminProbes, w \in StoreOutcomes :
           TimerFire(2, tm, r, w)
    \/ \E t \in Tasks : HI_Find(t)
    \/ \E t \in Tasks : HI_Save(t)
    \/ \E t \in Tasks : HI_Notify(t)
    \/ \E t \in Tasks : HI_Mark(t)

SpecBoot == InitBoot /\ [][NextBoot]_vars

\* A full server, and a server reported offline on an old protocol
ProbeFull ==
    [ProbeHealthy EXCEPT !.ponline = 20]
ProbeOfflineOld ==
    [ProbeOldVersion EXCEPT !.online = FALSE]

\* Responses raising each kind of issue, and two issues at once
ArmingProbes ==
    {ProbeThrows, ProbeSlow, ProbeFull, ProbeOldVersion, ProbeOfflineOld}

\* One server checked again and again with issues of every kind, the
\* recovery watchers running; info incidents are notified too
InitArming ==
    /\ InitLedger
    /\ InitSched
    /\ InitRunning
    /\ cfg = [DefaultCfg EXCEPT !.notify_info = TRUE]
    /\ chanDown = {}
    /\ InitWa

NextArming ==
    \/ \E r \in ArmingProbes : ForceCheck(1, "s1", r, StoreOk)
    \/ HI_Find(1)
    \/ HI_Save(1)
    \/ HI_Notify(1)
    \/ HI_Mark(1)
    \/ \E i \in 1..MaxIncidents : W_Tick(i, TRUE)

SpecArming == InitArming /\ [][NextArming]_vars

\* Responses around the latency buckets and the load threshold
DiagProbes ==
    {[throws |-> th, online |-> TRUE, hasPlayers |-> hp, ponline |-> po,
      pmax |-> 20, hasVersion |-> TRUE, protocol |-> 671, latency |-> la] :
        th \in BOOLEAN, hp \in BOOLEAN, po \in {16, 17},
        la \in {0, 99, 100, 299, 300, 499, 500}}

\* The first active server is checked and the status route is called
NextDiag ==
    \/ \E r \in DiagProbes : ForceCheck(1, "s1", r, StoreOk)
    \/ HI_Find(1)
    \/ HI_Save(1)
    \/ HI_Notify(1)
    \/ HI_Mark(1)
    \/ ApiStatus

SpecDiag == Init /\ [][NextDiag]_vars

\* The process starts on a store without servers whose settings are all
\* there, partly there or missing
InitSettings ==
    /\ InitLedger
    /\ InitSched
    /\ phase = "start"
    /\ serverRows = [s \in Servers |-> "absent"]
    /\ settingRows \in {<<>>, <<[key |-> "smtp_user", value |-> "false"]>>,
                         DefaultRows}
    /\ cfg = DefaultCfg
    /\ chanDown = {}
    /\ InitWa

\* initializeSystem from monitor.init() on, while settings are written
\* through the route and read
NextSettings ==
    \/ \E ok \in BOOLEAN : LoadServers(ok)
    \/ CheckDefaultData
    \/ DefaultFind
    \/ \E ok \in BOOLEAN : DefaultSet(ok)
    \/ \E k \in SettingKeys, v \in SettingValues, ok \in BOOLEAN :
           PostSettings(k, v, ok)
    \/ \E k \in SettingKeys, d \in Defaults, ok \in BOOLEAN :
           GetSetting(k, d, ok)

SpecSettings == InitSettings /\ [][NextSettings]_vars

\* Any chats subscribed, the send to one of them rejected or not
InitSnapshot ==
    /\ InitLedger
    /\ InitSched
    /\ InitRunning
    /\ cfg \in {[DefaultCfg EXCEPT !.subscribed = S] :
                    S \in SUBSET {Chats[n] : n \in 1..Len(Chats)}}
    /\ chanDown \in SUBSET {"c1"}
    /\ InitWa

\* Responses that raise a critical issue, a warning issue, or none
SnapshotProbes == {ProbeThrows, ProbeSlow, ProbeHealthy}

\* One server checked again and again, each fan-out in steps, while chats
\* subscribe and unsubscribe
NextSnapshot ==
    \/ \E r \in SnapshotProbes : ForceCheck(1, "s1", r, StoreOk)
    \/ HI_Find(1)
    \/ HI_Save(1)
    \/ FO_Start(1)
    \/ FO_Snapshot(1)
    \/ FO_Chat(1)
    \/ FO_Records(1)
    \/ HI_Mark(1)
    \/ \E n \in 1..Len(Chats), v \in BOOLEAN : SetSubscription(Chats[n], v)

SpecSnapshot == InitSnapshot /\ [][NextSnapshot]_vars

\* A running process with timers and recovery watchers that gets SIGTERM;
\* the administrator arms servers before the signal only
NextShutdown ==
    \/ /\ phase = "running"
       /\ \E s \in Servers, r \in AdminProbes :
              PutServer(1, s, TRUE, r, StoreOk)
    \/ \E tm \in liveTimers, r \in AdminProbes : TimerFire(2, tm, r, StoreOk)
    \/ \E t \in Tasks : HI_Find(t)
    \/ \E t \in Tasks : HI_Save(t)
    \/ \E t \in Tasks : HI_Notify(t)
    \/ \E t \in Tasks : HI_Mark(t)
    \/ \E i \in 1..MaxIncidents : W_Tick(i, TRUE)
    \/ Sigterm
    \/ ReleaseClients
    \/ CloseAndExit

SpecShutdown == Init /\ [][NextShutdown]_vars

\* The probe outcomes the watcher specification draws from
WatchProbes == {ProbeThrows, ProbeHealthy}

\* The recovery watchers: offline and online checks of one server, the
\* interval callbacks with accepted and rejected saves, the resolve route
\* and the delete route
NextWatch ==
    \/ \E s \in Checked, r \in WatchProbes : ForceCheck(1, s, r, StoreOk)
    \/ HI_Find(1)
    \/ HI_Save(1)
    \/ HI_Notify(1)
    \/ HI_Mark(1)
    \/ \E i \in 1..MaxIncidents : W_Fire(i)
    \/ \E i \in 1..MaxIncidents, ok \in BOOLEAN : W_Run(i, ok)
    \/ \E i \in 1..MaxIncidents : AdminResolve(i)
    \/ \E s \in Checked : DeleteServer(s)

\* setInterval keeps calling the callback of a timer that is not cleared,
\* and every findById it awaits is answered
FairWatch ==
    \A i \in 1..MaxIncidents :
        /\ WF_vars(W_Fire(i))
        /\ WF_vars(\E ok \in BOOLEAN : W_Run(i, ok))

SpecWatch == Init /\ [][NextWatch]_vars /\ FairWatch

\* Responses raising one issue, two issues and none
ContainProbes == {ProbeThrows, ProbeOfflineOld, ProbeOldVersion, ProbeHealthy}

\* One server checked again and again, every store call of handleIssue
\* either answering or rejecting
NextContain ==
    \/ \E r \in ContainProbes : ForceCheck(1, "s1", r, StoreOk)
    \/ HI_Find(1)
    \/ HI_Save(1)
    \/ HI_Catch(1)
    \/ HI_Notify(1)
    \/ HI_Mark(1)
    \/ \E i \in 1..MaxIncidents : W_Tick(i, TRUE)

SpecContain == InitArming /\ [][NextContain]_vars

\* No chat has written to the bot yet
InitTelegram ==
    /\ InitLedger
    /\ InitSched
    /\ InitRunning
    /\ cfg = [DefaultCfg EXCEPT !.subscribed = {}]
    /\ chanDown = {}
    /\ InitWa

\* Chats writing to the bot while one server is checked and its incidents
\* are fanned out
NextTelegram ==
    \/ \E ch \in ChatIds, m \in Texts : TgReceive(ch, m)
    \/ \E ch \in ChatIds, ok \in BOOLEAN : TgMeta(ch, ok)
    \/ \E ch \in ChatIds, ok \in BOOLEAN : TgCommand(ch, ok)
    \/ ForceCheck(1, "s1", ProbeThrows, StoreOk)
    \/ HI_Find(1)
    \/ HI_Save(1)
    \/ HI_Notify(1)
    \/ HI_Mark(1)

SpecTelegram == InitTelegram /\ [][NextTelegram]_vars

\* WhatsApp enabled, initializeSystem about to call initializeWhatsApp
InitWhatsApp ==
    /\ InitLedger
    /\ InitAux
    /\ InitEngine
    /\ InitRunning
    /\ cfg = [DefaultCfg EXCEPT !.whatsapp_enabled = TRUE,
                                !.admin_phone = TRUE]
    /\ chanDown = {}
    /\ waClient = 0
    /\ waState = [c \in Clients |-> "none"]
    /\ waInitDue = 1
    /\ waReconnectDue = 0
    /\ waSentOn = {}

\* The WhatsApp client through its events, the restart route and sends
NextWhatsApp ==
    \/ InitializeWhatsApp
    \/ \E c \in Clients : WaReady(c)
    \/ \E c \in Clients : WaAuthFailure(c)
    \/ \E c \in Clients : WaDisconnected(c)
    \/ WaReconnect
    \/ WaRestart
    \/ SendWhatsAppMessage

SpecWhatsApp == InitWhatsApp /\ [][NextWhatsApp]_vars

\* The monitor as the wizards find it: they never touch it
InitMonitor ==
    /\ InitLedger
    /\ InitLog
    /\ InitTg
    /\ InitEngine
    /\ InitRunning
    /\ cfg = DefaultCfg
    /\ chanDown = {}
    /\ InitWa

\* Lines a .env file may hold before a wizard runs: another program's key,
\* keys of the three wizards, and a wizard's key commented out
LineBodies ==
    {<<"PORT=", "a">>, <<"#", "TELEGRAM_BOT_TOKEN=", "a">>,
     <<"TELEGRAM_BOT_TOKEN=", "a">>, <<"TELEGRAM_CHAT_ID=", "a">>,
     <<"SMTP_USER=", "a">>, <<"ADMIN_PHONE=", "a">>}

\* The text of a file with these lines, each ended by a line feed
RECURSIVE JoinLines(_)
JoinLines(lines) ==
    IF lines = <<>> THEN <<>>
    ELSE Head(lines) \o <<NL>> \o JoinLines(Tail(lines))

\* Files of up to MaxLines lines, the last line with or without its line
\* feed, and no file at all
EnvTexts ==
    LET full == UNION {{JoinLines(ls) : ls \in [1..n -> LineBodies]} :
                           n \in 0..MaxLines}
    IN full \cup {SubSeq(t, 1, Len(t) - 1) : t \in full \ {<<>>}}
EnvFiles == {NoFile} \cup {[exists |-> TRUE, text |-> t] : t \in EnvTexts}

\* setup-telegram.js started next to any of these files
InitTgWizard ==
    /\ InitMonitor
    /\ wiz = WizAt("token")
    /\ envFile \in EnvFiles
    /\ infoFiles = {}
    /\ lastSave = NoSave
    /\ runs = 0

NextTgWizard ==
    \/ \E token \in Tokens : TwToken(token)
    \/ \E out \in GetMeOutcomes : TwGetMe(out)
    \/ \E chatId \in ChatIdInputs : TwChat(chatId)
    \/ \E chatId \in ChatIdInputs : TwChat2(chatId)

SpecTgWizard == InitTgWizard /\ [][NextTgWizard]_vars

\* setup-email.js started next to any of these files
InitEmailWizard ==
    /\ InitMonitor
    /\ wiz = WizAt("email")
    /\ envFile \in EnvFiles
    /\ infoFiles = {}
    /\ lastSave = NoSave
    /\ runs = 0

NextEmailWizard ==
    \/ \E email \in Emails : EwEmail(email)
    \/ \E password \in Passwords : EwPassword(password)
    \/ \E ok \in BOOLEAN : EwVerify(ok)
    \/ \E ok \in BOOLEAN : EwSendMail(ok)
    \/ \E answer \in Answers : EwRetry(answer)

SpecEmailWizard == InitEmailWizard /\ [][NextEmailWizard]_vars

\* The three save functions applied again and again to any of these files
InitEnv ==
    /\ InitMonitor
    /\ wiz = NoWiz
    /\ envFile \in EnvFiles
    /\ infoFiles = {}
    /\ lastSave = NoSave
    /\ runs = 0

NextEnv ==
    \/ \E token \in Values, chatId \in Values : RunSaveConfig(token, chatId)
    \/ \E email \in Values, password \in Values :
           RunSaveEmailConfig(email, password)
    \/ \E phone \in Values : RunSaveWhatsAppConfig(phone)

SpecEnv == InitEnv /\ [][NextEnv]_vars

\* ==================================================================== claims
Ids == 1..Len(incidents)

SameKeyPair(i, j) ==
    SameKey(incidents[j], incidents[i].serverId, incidents[i].type)

RecordsOf(i) == SelectSeq(notifications, LAMBDA n : n.incident = i)

\* C1 (as stated): among the detections of one (target, kind) that fall
\* within 30 minutes of the first, only the first creates an incident and a
\* NotificationRecord set: no two incidents of a key are created within 30
\* minutes of each other.
C1_OnlyFirstDetectionCreates ==
    \A i, j \in Ids :
        (i < j /\ SameKeyPair(i, j))
        => incidents[j].createdAt - incidents[i].createdAt > DedupWindow

\* C1 (amended): with detections handled one after the other, a detection
\* within 30 minutes of the one that opened an incident creates a second
\* incident only if the first has been resolved in between, so at most one
\* incident of the key is active, and every incident has the records of at
\* most one fan-out.
C1_DedupWhileActive ==
    /\ \A i, j \in Ids :
           (i < j /\ SameKeyPair(i, j)
            /\ incidents[j].createdAt - incidents[i].createdAt <= DedupWindow)
           => incidents[i].status = "resolved"
    /\ \A i \in Ids :
           RecordsOf(i) \in
               {<<>>, SendIncidentNotifications(i, incidents[i].severity,
                                                cfg, chanDown).records}

\* C1 witness: an incident that a later detection was deduplicated into is
\* still the only one of its key and has the one record of its fan-out.
C1_Witness ==
    \E i \in Ids :
        /\ incidents[i].status = "active"
        /\ updatedAt[i] > incidents[i].createdAt
        /\ \A j \in Ids : SameKeyPair(i, j) => j = i
        /\ Len(RecordsOf(i)) = 1
        /\ tasks[1].pc = "idle"

\* C2: two handleIssue calls for the same (target, kind) are never both past
\* the dedup query with their incident still to be saved.
C2_AtomicDedup ==
    \A t1, t2 \in Tasks :
        (t1 # t2 /\ tasks[t1].pc = "save" /\ tasks[t2].pc = "save")
        => ~(tasks[t1].server = tasks[t2].server
             /\ Head(tasks[t1].issues) = Head(tasks[t2].issues))

\* The last time the issue of incident i was detected: its creation or the
\* latest re-detection that found it
LastSeen(i) ==
    IF updatedAt[i] > incidents[i].createdAt THEN updatedAt[i]
    ELSE incidents[i].createdAt

\* C3: two incidents of one (target, kind) are active together only if the
\* later one was created more than 30 minutes after the earlier one was last
\* detected (every re-detection restarts the window).
C3_RollingWindow ==
    \A i, j \in Ids :
        (i < j /\ SameKeyPair(i, j) /\ incidents[i].status = "active"
         /\ incidents[j].status = "active")
        => incidents[j].createdAt > LastSeen(i) + DedupWindow

\* C4: an incident its watcher resolved is resolved with resolvedAt set and
\* had sendRecoveryNotification called exactly once.
C4_RecoveryExactlyOnce ==
    \A i \in Ids :
        firstResolver[i] = "watcher"
        => /\ incidents[i].status = "resolved"
           /\ incidents[i].resolvedAt # NoDate
           /\ recoveryCalls[i] = 1

\* C5: once the resolve route has resolved an incident first, no step sends
\* a recovery notice for it, and its watcher stops (leaves incidentCheckers)
\* without writing the incident row.
C5_WatcherStopsAfterExternalResolve ==
    [][\A i \in Ids :
          firstResolver[i] = "admin"
          => /\ recoveryCalls'[i] = recoveryCalls[i]
             /\ (i \in incidentCheckers /\ i \notin incidentCheckers')
                => incidents'[i] = incidents[i]]_vars

\* C6: a resolved incident stays resolved and keeps its resolvedAt.
C6_ResolvedIsTerminal ==
    [][\A i \in Ids :
          incidents[i].status = "resolved"
          => /\ incidents'[i].status = "resolved"
             /\ incidents'[i].resolvedAt = incidents[i].resolvedAt]_vars

\* The (channel, recipient) pairs a fan-out under settings c is due to try
Attempts(c) ==
    (IF c.email_enabled /\ c.admin_email
     THEN {[type |-> "email", recipient |-> "adminEmail"]} ELSE {})
    \cup (IF c.whatsapp_enabled /\ c.admin_phone /\ c.whatsappReady
          THEN {[type |-> "whatsapp", recipient |-> "adminPhone"]} ELSE {})
    \cup (IF c.telegram_enabled /\ c.telegramReady
          THEN {[type |-> "telegram", recipient |-> ch] : ch \in c.subscribed}
          ELSE {})

RecordsFor(i, a) ==
    SelectSeq(notifications,
              LAMBDA n : n.incident = i /\ n.type = a.type
                         /\ n.recipient = a.recipient)

Outcome(a) ==
    IF SendOk(cfg, chanDown, a.type, a.recipient) THEN "sent" ELSE "failed"

\* C7: after sendIncidentNotifications has run for an incident, every
\* (channel, recipient) attempt has exactly one NotificationRecord, and its
\* status is decided by that attempt alone, whichever other attempts failed.
C7_FanoutIsolation ==
    \A i \in Ids :
        incidents[i].notificationsSent
        => \A a \in Attempts(cfg) :
               /\ Len(RecordsFor(i, a)) = 1
               /\ RecordsFor(i, a)[1].status = Outcome(a)

\* C7 witness: a fan-out in which the email and the first chat failed while
\* WhatsApp and the second chat were sent.
C7_Witness ==
    \E i \in Ids :
        /\ incidents[i].notificationsSent
        /\ RecordsOf(i) =
               <<NotifRecord(i, "email", "adminEmail", FALSE),
                 NotifRecord(i, "whatsapp", "adminPhone", TRUE),
                 NotifRecord(i, "telegram", "c1", FALSE),
                 NotifRecord(i, "telegram", "c2", TRUE)>>

GatedOff(c, severity) ==
    \/ severity = "critical" /\ ~c.notify_critical
    \/ severity = "warning" /\ ~c.notify_warning
    \/ severity = "info" /\ ~c.notify_info

IncidentSends(i) == {sd \in sends : sd.incident = i /\ sd.msg = "incident"}

\* C8: an incident whose severity is switched off in the settings has no
\* NotificationRecord and no channel send was made for it.
C8_SeverityGating ==
    \A i \in Ids :
        GatedOff(cfg, incidents[i].severity)
        => RecordsOf(i) = <<>> /\ IncidentSends(i) = {}

\* C8 witness: handleIssue has finished for a gated-off incident, which is
\* persisted and active with no record, next to a notified incident of a
\* severity that is switched on.
C8_Witness ==
    /\ tasks[1].pc = "idle"
    /\ \E i, j \in Ids :
           /\ GatedOff(cfg, incidents[i].severity)
           /\ incidents[i].status = "active"
           /\ RecordsOf(i) = <<>>
           /\ ~GatedOff(cfg, incidents[j].severity)
           /\ Len(RecordsOf(j)) = 1

\* C9: after sendRecoveryNotification has run for an incident, every
\* (channel, recipient) attempt was made, with the outcome decided by that
\* attempt alone.
C9_RecoveryFanoutIsolation ==
    \A i \in Ids :
        recoveryCalls[i] > 0
        => \A a \in Attempts(cfg) :
               [incident |-> i, msg |-> "recovery", type |-> a.type,
                recipient |-> a.recipient, ok |-> (Outcome(a) = "sent")]
               \in sends

\* C10: the live setInterval handles of a server are exactly the one handle
\* the registry holds for it.
C10_OneLiveTimer ==
    \A s \in Servers :
        TimersOf(liveTimers, s) =
            IF monitoring[s] = 0 THEN {}
            ELSE {[id |-> monitoring[s], server |-> s]}

\* C10 witness: startMonitoring was called twice for one server and for no
\* other, the second call while a callback of the first timer was running
\* its check.
C10_Witness ==
    \E s \in Servers :
        /\ nextTimer = 3
        /\ monitoring[s] = 2
        /\ \A t \in {1, 2} : tasks[t].pc # "idle" /\ tasks[t].server = s

\* C11: a server that was deleted or updated to inactive has no live poll
\* timer, so no checkServer runs for it any more.
C11_StoppedTargetHasNoTimer ==
    \A s \in Servers :
        serverRows[s] # "active" => TimersOf(liveTimers, s) = {}

\* C12: whatever the probe and the store did, every check counted once in
\* totalChecks is counted exactly once more, as an uptime check or as one
\* interval of downtime.
C12_CheckAccounting ==
    \A s \in Servers :
        stats[s].uptimeChecks * CheckInterval + stats[s].totalDowntime
            = stats[s].totalChecks * CheckInterval

\* C13: no check started by a timer callback rejects with nobody catching
\* it.
C13_NoUnhandledRejection == \A u \in unhandled : u.via # "timer"

\* C14: while the SIGTERM handler releases the channel clients and closes
\* the store, no poll timer and no recovery watcher is live.
C14_TimersCancelledFirst ==
    phase \in {"releasing", "closing"}
    => liveTimers = {} /\ incidentCheckers = {}

\* The issues whose rule matches a status, rule by rule
RuleMatches(status) ==
    (IF ~status.online THEN {"server_offline"} ELSE {})
    \cup (IF status.responseTime > LatencyLimit THEN {"high_latency"} ELSE {})
    \cup (IF status.hasPlayers /\ status.ponline = status.pmax
              /\ status.pmax > 0
           THEN {"full_capacity"} ELSE {})
    \cup (IF status.hasVersion /\ status.protocol < MinProtocol
           THEN {"version_mismatch"} ELSE {})

\* C15: the issues checkForIssues raised for the latest status of a server
\* are exactly those whose rule matches it, each once.
C15_DetectorRules ==
    \A s \in Servers :
        lastStatus[s].present
        => /\ {raised[s][k] : k \in 1..Len(raised[s])}
                = RuleMatches(lastStatus[s])
           /\ Len(raised[s]) = Cardinality(RuleMatches(lastStatus[s]))

\* C16: once initialization is complete, every active server of the store
\* has exactly one armed poll timer and has been checked.
C16_StartupArming ==
    phase = "running"
    => \A s \in Servers :
           serverRows[s] = "active"
           => /\ Cardinality(TimersOf(liveTimers, s)) = 1
              /\ stats[s].totalChecks >= 1

\* The updatedAt the stored row of incident i carries
StoredUpdatedAt(i) ==
    IF "updatedAt" \in DOMAIN incidents[i] THEN incidents[i].updatedAt
    ELSE NoDate

\* C17: an incident that a later detection was deduplicated into has the time
\* of that detection as the updatedAt of its stored row.
C17_RefreshPersisted ==
    \A i \in Ids :
        updatedAt[i] # NoDate => StoredUpdatedAt(i) = updatedAt[i]

\* C18: incidentCheckers holds no entry for a resolved incident.
C18_NoWatcherForResolved ==
    \A i \in incidentCheckers : incidents[i].status # "resolved"

ChannelReady(c, channel) ==
    \/ channel = "email" /\ c.emailTransporter
    \/ channel = "whatsapp" /\ c.whatsappReady
    \/ channel = "telegram" /\ c.telegramReady

\* C19: no send was attempted and no NotificationRecord was written on a
\* channel that is not ready.
C19_ReadinessGating ==
    /\ \A k \in 1..Len(notifications) :
           ChannelReady(cfg, notifications[k].type)
    /\ \A sd \in sends :
           sd.msg = "incident" => ChannelReady(cfg, sd.type)

\* handleIssue is through with incident i
Handled(i) == \A t \in Tasks : tasks[t].incident # i

\* sendIncidentNotifications has made its attempts for incident i and has
\* yet to mark it
Attempted(i) ==
    \E t \in Tasks : tasks[t].incident = i /\ tasks[t].pc = "mark"

\* C20: notificationsSent is false until every attempt of the fan-out has
\* its record; once handleIssue is through it is true exactly for the
\* incidents whose severity is not gated off, whatever the attempts gave.
C20_NotificationsSentFlag ==
    \A i \in Ids :
        /\ incidents[i].notificationsSent
           => Len(RecordsOf(i)) = Cardinality(Attempts(cfg))
        /\ Attempted(i) => ~incidents[i].notificationsSent
        /\ Handled(i)
           => (incidents[i].notificationsSent
               <=> ~GatedOff(cfg, incidents[i].severity))

\* C20 witness: handleIssue is through with two incidents: one was marked
\* after all four of its attempts failed and were recorded, the other is of
\* a gated-off severity and stays unmarked.
C20_Witness ==
    \E i, j \in Ids :
        /\ Handled(i) /\ Handled(j)
        /\ incidents[i].notificationsSent
        /\ Len(RecordsOf(i)) = 4
        /\ \A k \in 1..4 : RecordsOf(i)[k].status = "failed"
        /\ GatedOff(cfg, incidents[j].severity)
        /\ ~incidents[j].notificationsSent

\* The Telegram block of a fan-out under c was entered and its read of the
\* subscribed chats rejected
SubscriberReadFailed(c, down) ==
    c.telegram_enabled /\ c.telegramReady /\ "subscribers" \in down

AttemptsMade(c, down) ==
    {a \in Attempts(c) :
        a.type = "telegram" => ~SubscriberReadFailed(c, down)}

NoVersionInfo(status) == ~status.hasVersion \/ status.protocol = -1

\* C22: the latest check of a server raised version_mismatch only if its
\* response carried a protocol version, and that version is below 671.
C22_VersionRuleNeedsVersion ==
    \A s \in Servers :
        (lastStatus[s].present
         /\ \E k \in 1..Len(raised[s]) : raised[s][k] = "version_mismatch")
        => /\ ~NoVersionInfo(lastStatus[s])
           /\ lastStatus[s].protocol < MinProtocol

\* C23: while the initial check of one server is still being handled during
\* loadServers, the timers of the servers that follow it are armed.
C23_IndependentScheduling ==
    (phase = "load" /\ tasks[1].pc # "idle")
    => \A k \in 1..Len(toLoad) : monitoring[toLoad[k]] # 0

\* C24: with a store that accepts every write, the totalChecks of a server's
\* row is the number of checks performed on that server, whether they came
\* from its timer, from startMonitoring or from the check route.
C24_SingleWriter ==
    \A s \in Servers : storedStats[s].totalChecks = checksRun[s]

C27_WatcherArming ==
    [][/\ \A i \in 1..MaxIncidents :
              (i \in incidentCheckers' /\ i \notin incidentCheckers)
              => \E t \in Tasks :
                     /\ tasks[t].pc = "mark" /\ tasks'[t].pc # "mark"
                     /\ tasks[t].incident = i
                     /\ incidents[i].type = "server_offline"
       /\ \A t \in Tasks :
              (tasks[t].pc = "mark" /\ tasks'[t].pc # "mark")
              => ((tasks[t].incident \in incidentCheckers')
                    <=> (incidents[tasks[t].incident].type = "server_offline"))
       /\ \A t \in Tasks :
              (tasks[t].pc = "find" /\ tasks'[t] # tasks[t]
               /\ tasks'[t].pc # "save")
              => incidentCheckers' = incidentCheckers
      ]_vars

\* C27 witness: server_offline and version_mismatch were raised; both
\* incidents were created and handled, the first has its watcher, the second
\* has none.
C27_Witness ==
    /\ Len(incidents) = 2
    /\ incidents[1].type = "server_offline"
    /\ incidents[2].type = "version_mismatch"
    /\ \A t \in Tasks : tasks[t].pc = "idle"
    /\ incidentCheckers = {1}

\* C28: no step removes an incident or changes which detection it stands
\* for; an active incident becomes resolved only in a step of its recovery
\* watcher, which it has only if it is of the server_offline kind and which
\* resolves it only when its server is stored as online, or in a step of the
\* resolve route, which touches nothing but that incident.
C28_ResolutionSources ==
    [][/\ Len(incidents') >= Len(incidents)
       /\ \A i \in Ids :
              /\ incidents'[i].serverId = incidents[i].serverId
              /\ incidents'[i].type = incidents[i].type
              /\ incidents'[i].createdAt = incidents[i].createdAt
              /\ (incidents[i].status = "active"
                  /\ incidents'[i].status = "resolved")
                 => \/ /\ i \in incidentCheckers
                       /\ i \notin incidentCheckers'
                       /\ incidents[i].type = "server_offline"
                       /\ lastStatus[incidents[i].serverId].online
                    \/ /\ UNCHANGED <<tasks, incidentCheckers, lastStatus,
                                      notifications, sends, recoveryCalls>>
                       /\ \A j \in Ids \ {i} : incidents'[j] = incidents[j]
      ]_vars

\* C28 witness: the ledger holds a server_offline incident that its watcher
\* resolved and a version_mismatch incident that the resolve route resolved.
C28_Witness ==
    \E i, j \in Ids :
        /\ incidents[i].type = "server_offline"
        /\ incidents[i].status = "resolved"
        /\ firstResolver[i] = "watcher"
        /\ incidents[j].type = "version_mismatch"
        /\ incidents[j].status = "resolved"
        /\ firstResolver[j] = "admin"

\* The chats, in the order of the Setting rows, that are in set S
ChatsIn(S) == SelectSeq(Chats, LAMBDA ch : ch \in S)

\* The Telegram recipients of the entries a fan-out has pushed so far
TelegramRecipients(records) ==
    LET tg == SelectSeq(records, LAMBDA n : n.type = "telegram")
    IN [k \in 1..Len(tg) |-> tg[k].recipient]

LatencyBucket(ms) ==
    IF ms < 100 THEN "excellent"
    ELSE IF ms < 300 THEN "good"
    ELSE IF ms < 500 THEN "fair"
    ELSE "poor"

\* C29: the diagnostics of a status report its responseTime as latency, 0
\* when it has none, the bucket of that latency as latencyStatus, and
\* serverLoad high exactly when the status has players and players.online
\* is above 80% of players.max.
C29_Diagnostics ==
    diagnostics.called
    => LET st == diagnostics.of
       IN /\ diagnostics.latency
                 = (IF st.present THEN st.responseTime ELSE 0)
          /\ diagnostics.latencyStatus = LatencyBucket(diagnostics.latency)
          /\ (diagnostics.serverLoad = "high")
                <=> (st.hasPlayers /\ 10 * st.ponline > 8 * st.pmax)

\* The rows of the collection that hold key k
RowsWith(rows, k) == {n \in 1..Len(rows) : rows[n].key = k}

\* C30: every key has at most one row; whatever is in the store, setting a
\* key to v (also false or the empty string) makes a read of that key
\* return v; a getSetting call returns its default exactly when the key has
\* no row or the read failed, and the row's value otherwise; and a step of
\* checkDefaultData changes no row that exists.
C30_SettingsStore ==
    [][/\ \A k \in SettingKeys : Cardinality(RowsWith(settingRows', k)) <= 1
       /\ \A k \in SettingKeys, v \in SettingValues, d \in Defaults :
              LET after == SetSettingRows(settingRows, k, v)
              IN /\ Cardinality(RowsWith(after, k)) = 1
                 /\ GetSettingValue(after, k, d, TRUE) = v
       /\ got' # got
          => LET rws == RowsWith(settingRows, got'.key)
             IN IF got'.ok /\ rws # {}
                THEN \E n \in rws : got'.value = settingRows[n].value
                ELSE got'.value = got'.default
       /\ (toDefault' # toDefault \/ defaultFound' # defaultFound)
          => \A n \in 1..Len(settingRows) :
                 /\ n <= Len(settingRows')
                 /\ settingRows'[n] = settingRows[n]
      ]_vars

\* The incidents whose recovery watcher is armed for server s
WatchersOf(s) == {i \in incidentCheckers : incidents[i].serverId = s}

\* C31: at most one recovery watcher is armed per server, whatever the
\* length of the outage, and sendRecoveryNotification is called at most once
\* for an incident, so that one offline-to-online flip of a server gives one
\* recovery notice.
C31_OneWatcherPerOutage ==
    /\ \A s \in Servers : Cardinality(WatchersOf(s)) <= 1
    /\ \A i \in Ids : recoveryCalls[i] <= 1

\* The server of incident i is no longer a row of the store
TargetDeleted(i) == serverRows[incidents[i].serverId] = "absent"

\* The stored status of the server of incident i is online
TargetOnline(i) ==
    /\ ~TargetDeleted(i)
    /\ lastStatus[incidents[i].serverId].present
    /\ lastStatus[incidents[i].serverId].online

\* C32: an armed recovery watcher is eventually cancelled and removed from
\* incidentCheckers once its incident has been resolved or its server has
\* been deleted, and no watcher stays armed forever on a server whose
\* stored status stays online.
C32_WatcherTermination ==
    \A i \in 1..MaxIncidents :
        /\ (/\ i \in incidentCheckers
            /\ (incidents[i].status = "resolved" \/ TargetDeleted(i)))
               ~> (i \notin incidentCheckers)
        /\ ~<>[](i \in incidentCheckers /\ TargetOnline(i))

\* C33: a watcher that cancels its timer leaves its incident resolved in
\* the store.
C33_CancelImpliesResolved ==
    [][\A i \in incidentCheckers :
           i \notin incidentCheckers' => incidents'[i].status = "resolved"
      ]_vars

\* C34: no two checkServer calls are in flight on the same server: a check
\* started by the timer, by startMonitoring or by the check route finds no
\* earlier check of that server still between its probe and the end of its
\* issue handling.
C34_NoOverlappingChecks ==
    \A t, u \in Tasks :
        (t # u /\ tasks[t].pc # "idle" /\ tasks[u].pc # "idle")
        => tasks[t].server # tasks[u].server

\* C35: a store call of handleIssue that rejects is logged and goes no
\* further than handleIssue: the step inserts no incident, writes no
\* notification row, makes no send and arms no watcher, the check is not
\* recorded as rejected, and checkForIssues goes on with the next issue it
\* raised; every watcher and every notification row belongs to an incident
\* that was saved.
C35_ErrorContainment ==
    [][/\ errorLogs' # errorLogs
          => /\ incidents' = incidents
             /\ notifications' = notifications
             /\ sends' = sends
             /\ incidentCheckers' = incidentCheckers
             /\ unhandled' = unhandled
             /\ \A t \in Tasks :
                    tasks'[t] # tasks[t]
                    => IF Len(tasks[t].issues) > 1
                       THEN /\ tasks'[t].pc = "find"
                            /\ tasks'[t].server = tasks[t].server
                            /\ tasks'[t].issues = Tail(tasks[t].issues)
                       ELSE tasks'[t].pc = "idle"
       /\ \A t \in Tasks :
              (tasks[t].pc = "save" /\ tasks'[t].pc # "save"
               /\ Len(incidents') = Len(incidents))
              => errorLogs' = errorLogs + 1
       /\ \A i \in incidentCheckers' : i \in 1..Len(incidents')
       /\ \A n \in 1..Len(notifications') :
              notifications'[n].incident \in 1..Len(incidents')
      ]_vars

\* C35 witness: the save of an offline incident was rejected and logged,
\* and the version issue of the same response was handled after it: the
\* only incident is the version one, with its notifications and no watcher.
C35_Witness ==
    /\ errorLogs = 1
    /\ Len(incidents) = 1
    /\ incidents[1].type = "version_mismatch"
    /\ raised["s1"] = <<"server_offline", "version_mismatch">>
    /\ tasks[1].pc = "idle"
    /\ incidentCheckers = {}
    /\ notifications # <<>>

\* C36: a chat whose handler has returned is among the subscribed chats
\* exactly when the latest of its /subscribe and /unsubscribe commands is
\* /subscribe; a message changes the subscribed chats only when it is one of
\* these two commands, and then only for its own chat; and the Telegram
\* attempts of an incident go to chats whose latest such command, returned
\* or running, is /subscribe.
C36_SubscriptionFlag ==
    [][/\ \A ch \in ChatIds :
              chatRun'[ch].pc = "idle"
              => ((ch \in cfg'.subscribed) <=> (lastCmd'[ch] = "/subscribe"))
       /\ \A ch \in ChatIds :
              ((ch \in cfg'.subscribed) # (ch \in cfg.subscribed))
              => /\ chatRun[ch].pc = "command"
                 /\ chatRun[ch].msg.command \in {"/subscribe", "/unsubscribe"}
       /\ \A n \in 1..Len(notifications') :
              (n > Len(notifications) /\ notifications'[n].type = "telegram"
               /\ notifications'[n].recipient \in ChatIds)
              => notifications'[n].recipient \in cfg.subscribed
      ]_vars

\* C37: whatsappReady is true only while the Client that whatsappClient
\* refers to is ready, and no send passes the guard of sendWhatsAppMessage
\* on a client that is destroyed, initializing, failed or closed.
C37_ReadyFlag ==
    /\ cfg.whatsappReady => (waClient # 0 /\ waState[waClient] = "ready")
    /\ waSentOn \subseteq {"ready"}

\* A step that writes a configuration file
Writes == envFile' # envFile \/ infoFiles' # infoFiles

\* C38: the Telegram wizard writes its files only in a run whose token has
\* at least 30 characters and whose getMe answered ok; the step that reads
\* a shorter token, and the step that gets a non-ok answer or a request
\* error, write nothing and end the wizard with its input closed.
C38_TelegramWizard ==
    [][/\ Writes
          => /\ wiz.token.len >= MinTokenLen
             /\ wiz.getMe = "ok"
             /\ wiz.pc \in {"chat", "chat2"}
       /\ (wiz.pc = "token" /\ wiz'.token.len < MinTokenLen)
          => (wiz'.pc = "done" /\ wiz'.closed /\ ~Writes)
       /\ (wiz.pc = "getMe" /\ wiz'.getMe # "ok")
          => (wiz'.pc = "done" /\ wiz'.closed /\ ~Writes)
       /\ wiz'.pc = "done" => wiz'.closed
      ]_vars

\* C38 witness: a token of exactly 30 characters was accepted by getMe and
\* saved with the chat id typed at the second prompt.
C38_Witness ==
    /\ wiz.pc = "done"
    /\ wiz.saved
    /\ wiz.token.len = MinTokenLen
    /\ lastSave = [wizard |-> "telegram", values |-> <<"t30", "77">>]
    /\ envFile.exists

\* C39: the e-mail wizard writes its files only in the step in which
\* sendMail succeeds after verify succeeded; a failing verify or sendMail
\* writes nothing and leads to the retry prompt with the input open; at
\* that prompt 'y' (in either case) starts again at the e-mail prompt and
\* any other answer closes the input; and the wizard always has a next step
\* until it has ended, which it does with the input closed.
C39_EmailWizard ==
    /\ [](wiz.pc = "done" \/ ENABLED NextEmailWizard)
    /\ [][/\ Writes
             => /\ wiz.pc = "sendMail"
                /\ wiz.verified
                /\ wiz'.sent
                /\ wiz'.saved
          /\ (wiz.pc = "verify" /\ ~wiz'.verified)
             => (wiz'.pc = "retry" /\ ~wiz'.closed /\ ~Writes)
          /\ (wiz.pc = "sendMail" /\ ~wiz'.sent)
             => (wiz'.pc = "retry" /\ ~wiz'.closed /\ ~Writes)
          /\ wiz.pc = "retry"
             => /\ ~Writes
                /\ \/ wiz' = [WizAt("email") EXCEPT !.retried = TRUE]
                   \/ (wiz'.pc = "done" /\ wiz'.closed /\ ~wiz'.saved)
          /\ wiz'.pc = "done" => wiz'.closed
         ]_vars

\* C39 witness: an attempt failed, the user asked for another one, and
\* that attempt was verified, sent and saved, the input closed after it.
C39_Witness ==
    /\ wiz.pc = "done"
    /\ wiz.retried
    /\ wiz.saved
    /\ wiz.closed
    /\ lastSave = [wizard |-> "email", values |-> <<"e2", "p1">>]
    /\ "email-info.json" \in infoFiles

\* The lines of a text: the pieces between line feeds
RECURSIVE SplitLines(_, _)
SplitLines(text, line) ==
    IF text = <<>> THEN (IF line = <<>> THEN <<>> ELSE <<line>>)
    ELSE IF Head(text) = NL THEN <<line>> \o SplitLines(Tail(text), <<>>)
    ELSE SplitLines(Tail(text), Append(line, Head(text)))

LinesOf(file) == IF file.exists THEN SplitLines(file.text, <<>>) ELSE <<>>

\* The keys a .env file of this project holds
AllKeys ==
    {TelegramKeys[n] : n \in DOMAIN TelegramKeys}
    \cup {EmailKeys[n] : n \in DOMAIN EmailKeys}
    \cup {WhatsAppKeys[n] : n \in DOMAIN WhatsAppKeys}
    \cup {"PORT="}

\* The keys a wizard manages and the lines a call of its save function
\* is to leave for them
ManagedKeys(save) ==
    IF save.wizard = "telegram"
    THEN {TelegramKeys[n] : n \in DOMAIN TelegramKeys}
    ELSE IF save.wizard = "email"
    THEN {EmailKeys[n] : n \in DOMAIN EmailKeys}
    ELSE {WhatsAppKeys[n] : n \in DOMAIN WhatsAppKeys}

ManagedLines(save) ==
    IF save.wizard = "telegram"
    THEN {<<"TELEGRAM_BOT_TOKEN=", save.values[1]>>,
          <<"TELEGRAM_CHAT_ID=", save.values[2]>>}
    ELSE IF save.wizard = "email"
    THEN {<<"EMAIL_ENABLED=", "true">>, <<"SMTP_USER=", save.values[1]>>,
          <<"SMTP_PASSWORD=", save.values[2]>>,
          <<"ADMIN_EMAIL=", save.values[1]>>,
          <<"SMTP_FROM=", "Forexter Monitor <", save.values[1], ">">>}
    ELSE {<<"WHATSAPP_ENABLED=", "true">>,
          <<"ADMIN_PHONE=", save.values[1]>>}

\* The lines of a file that are a line of key k
KeyLines(lines, k) ==
    {n \in DOMAIN lines : lines[n] # <<>> /\ lines[n][1] = k}

\* The lines of a file that belong to keys outside the set keys
OtherLines(lines, keys) ==
    SelectSeq(lines, LAMBDA l : l # <<>> /\ l[1] \in AllKeys \ keys)

\* C40: after a run of saveConfig, saveEmailConfig or saveWhatsAppConfig on
\* an existing .env file, the file has exactly one line for each key of
\* that wizard, the line with the value just entered, and the lines of all
\* other keys are the ones the file had before, in the same order.
C40_EnvRewrite ==
    [][(runs' # runs /\ envFile.exists)
       => LET new == LinesOf(envFile')
              keys == ManagedKeys(lastSave')
          IN /\ \A k \in keys :
                    /\ Cardinality(KeyLines(new, k)) = 1
                    /\ \A n \in KeyLines(new, k) :
                           new[n] \in ManagedLines(lastSave')
             /\ OtherLines(new, keys) = OtherLines(LinesOf(envFile), keys)
      ]_vars

====
